---- MODULE Spec2Model ----
(***************************************************************************)
(* A model of the konfig configuration loader: Load resolves files (base   *)
(* name candidates, then the explicit list), decodes them into the         *)
(* destination record and then applies environment overrides.              *)
(*                                                                         *)
(* Strings of the program (field names, tags, environment keys and values, *)
(* file paths) are sequences of one-character strings, so that the key     *)
(* transliteration, the tag splitting and the number parsing are computed  *)
(* character by character as the code does.                                *)
(***************************************************************************)
EXTENDS Integers, Sequences, FiniteSets, TLC

\* ------------------------------------------------------------------------
\* Characters (package unicode, on ASCII and on one letter, the sharp s,
\* that is lower-case and has no upper-case form)
\* ------------------------------------------------------------------------
LowerSeq == << "a","b","c","d","e","f","g","h","i","j","k","l","m",
               "n","o","p","q","r","s","t","u","v","w","x","y","z" >>

UpperSeq == << "A","B","C","D","E","F","G","H","I","J","K","L","M",
               "N","O","P","Q","R","S","T","U","V","W","X","Y","Z" >>

DigitSeq == << "0","1","2","3","4","5","6","7","8","9" >>

LowerSet == { LowerSeq[i] : i \in 1..Len(LowerSeq) }

UpperSet == { UpperSeq[i] : i \in 1..Len(UpperSeq) }

DigitSet == { DigitSeq[i] : i \in 1..Len(DigitSeq) }

\* the lower-case letters unicode.ToUpper leaves as they are
CaselessLowerSet == { "ß" }

\* unicode.ToUpper and unicode.ToLower on the letters
UpperOf == [c \in LowerSet |->
               UpperSeq[CHOOSE i \in 1..Len(LowerSeq) : LowerSeq[i] = c]]

LowerOf == [c \in UpperSet |->
               LowerSeq[CHOOSE i \in 1..Len(UpperSeq) : UpperSeq[i] = c]]

IsLower(c) == c \in LowerSet \cup CaselessLowerSet

IsUpper(c) == c \in UpperSet

IsDigit(c) == c \in DigitSet

IsSpace(c) == c \in {" ", "\t", "\n", "\r"}

ToUpper(c) == IF c \in LowerSet THEN UpperOf[c] ELSE c

ToLower(c) == IF IsUpper(c) THEN LowerOf[c] ELSE c

\* ------------------------------------------------------------------------
\* Package strings
\* ------------------------------------------------------------------------
RECURSIVE TrimLeft(_)
TrimLeft(s) ==
    IF s # << >> /\ IsSpace(Head(s)) THEN TrimLeft(Tail(s)) ELSE s

RECURSIVE TrimRight(_)
TrimRight(s) ==
    IF s # << >> /\ IsSpace(s[Len(s)])
    THEN TrimRight(SubSeq(s, 1, Len(s) - 1))
    ELSE s

\* strings.TrimSpace
TrimSpace(s) == TrimRight(TrimLeft(s))

\* strings.Split(s, ",")[0]: the part before the first comma
RECURSIVE BeforeComma(_)
BeforeComma(s) ==
    IF s = << >> \/ Head(s) = ","
    THEN << >>
    ELSE << Head(s) >> \o BeforeComma(Tail(s))

\* strings.ToLower
StrToLower(s) == [i \in 1..Len(s) |-> ToLower(s[i])]

\* ------------------------------------------------------------------------
\* toEnvKey / isBoundary
\* ------------------------------------------------------------------------
isBoundary(prev, current) ==
    \/ IsLower(prev) /\ IsUpper(current)
    \/ IsDigit(current) /\ ~IsDigit(prev)
    \/ IsDigit(prev) /\ ~IsDigit(current)

\* the appendUnderscore closure of toEnvKey
appendUnderscore(out) ==
    IF Len(out) = 0 \/ out[Len(out)] = "_" THEN out ELSE Append(out, "_")

IsSeparator(r) == r = "_" \/ r = "-" \/ r = "." \/ IsSpace(r)

\* the first loop of toEnvKey: st = [out, prevRune, hasPrev]
RECURSIVE toEnvKeyScan(_, _)
toEnvKeyScan(name, st) ==
    IF name = << >> THEN st.out
    ELSE LET r == Head(name) IN
         IF IsSeparator(r)
         THEN toEnvKeyScan(Tail(name),
                  [st EXCEPT !.out = appendUnderscore(st.out),
                             !.hasPrev = FALSE])
         ELSE LET o == IF st.hasPrev /\ isBoundary(st.prevRune, r)
                       THEN appendUnderscore(st.out)
                       ELSE st.out
              IN toEnvKeyScan(Tail(name),
                     [out |-> Append(o, ToUpper(r)),
                      prevRune |-> r, hasPrev |-> TRUE])

\* the second loop of toEnvKey: drop leading and duplicate underscores
RECURSIVE toEnvKeyCompact(_, _)
toEnvKeyCompact(rest, kept) ==
    IF rest = << >> THEN kept
    ELSE IF Head(rest) = "_" /\ (kept = << >> \/ kept[Len(kept)] = "_")
         THEN toEnvKeyCompact(Tail(rest), kept)
         ELSE toEnvKeyCompact(Tail(rest), Append(kept, Head(rest)))

\* the third loop of toEnvKey: drop trailing underscores
RECURSIVE toEnvKeyTrimTail(_)
toEnvKeyTrimTail(out) ==
    IF out # << >> /\ out[Len(out)] = "_"
    THEN toEnvKeyTrimTail(SubSeq(out, 1, Len(out) - 1))
    ELSE out

toEnvKey(name) ==
    LET n == TrimSpace(name) IN
    IF n = << >> THEN << >>
    ELSE toEnvKeyTrimTail(
             toEnvKeyCompact(
                 toEnvKeyScan(n, [out |-> << >>, prevRune |-> " ",
                                  hasPrev |-> FALSE]),
                 << >>))

\* ------------------------------------------------------------------------
\* envKey / firstNonEmptyTagValue
\* A struct field is [name, exported, tags, kind, bits, sub]; tags maps each
\* tag name to its raw value (the empty string when the tag is absent).
\* ------------------------------------------------------------------------
\* the tag names with yaml tried before json
TagNamesYamlFirst == << "konfig", "yaml", "json", "toml" >>

\* firstNonEmptyTagValue(field, "konfig", "json", "yaml", "toml")
TagNames == << "konfig", "json", "yaml", "toml" >>

RECURSIVE firstNonEmptyTagValue(_, _)
firstNonEmptyTagValue(field, names) ==
    IF names = << >> THEN << >>
    ELSE LET tag == field.tags[Head(names)] IN
         IF tag = << >> THEN firstNonEmptyTagValue(field, Tail(names))
         ELSE LET t == BeforeComma(tag) IN
              IF t = << "-" >> \/ t = << >>
              THEN firstNonEmptyTagValue(field, Tail(names))
              ELSE t

\* the name envKey transliterates (env tag, else the other tags, else Name)
envKeyName(field) ==
    LET raw == field.tags["env"]
        tag == IF raw # << >> THEN BeforeComma(raw) ELSE raw
        n1  == IF tag = << >> THEN firstNonEmptyTagValue(field, TagNames)
               ELSE tag
    IN IF n1 = << >> THEN field.name ELSE n1

\* envKey without the prefix
envKeyNoPrefix(field, prefix) ==
    IF field.tags["env"] = << "-" >> THEN [key |-> << >>, ok |-> FALSE]
    ELSE LET key == toEnvKey(envKeyName(field)) IN
         IF key = << >> THEN [key |-> << >>, ok |-> FALSE]
         ELSE [key |-> key, ok |-> TRUE]

\* envKey with an env tag taken as the whole key, prefix left out
envKeyTagVerbatim(field, prefix) ==
    IF field.tags["env"] = << "-" >> THEN [key |-> << >>, ok |-> FALSE]
    ELSE IF BeforeComma(field.tags["env"]) # << >>
    THEN [key |-> BeforeComma(field.tags["env"]), ok |-> TRUE]
    ELSE LET key == toEnvKey(envKeyName(field)) IN
         IF key = << >> THEN [key |-> << >>, ok |-> FALSE]
         ELSE IF prefix # << >>
              THEN [key |-> prefix \o << "_" >> \o key, ok |-> TRUE]
              ELSE [key |-> key, ok |-> TRUE]

\* envKey taking the skip-sentinel for an absent env tag
envKeySentinelFallsBack(field, prefix) ==
    LET f == IF field.tags["env"] = << "-" >>
             THEN [field EXCEPT !.tags["env"] = << >>]
             ELSE field
        key == toEnvKey(envKeyName(f))
    IN  IF key = << >> THEN [key |-> << >>, ok |-> FALSE]
        ELSE IF prefix # << >>
             THEN [key |-> prefix \o << "_" >> \o key, ok |-> TRUE]
             ELSE [key |-> key, ok |-> TRUE]

\* envKey with the prefix transliterated like a name
envKeyPrefixTransliterated(field, prefix) ==
    IF field.tags["env"] = << "-" >> THEN [key |-> << >>, ok |-> FALSE]
    ELSE LET key == toEnvKey(envKeyName(field)) IN
         IF key = << >> THEN [key |-> << >>, ok |-> FALSE]
         ELSE IF prefix # << >>
              THEN [key |-> toEnvKey(prefix) \o << "_" >> \o key, ok |-> TRUE]
              ELSE [key |-> key, ok |-> TRUE]

\* envKey going on to the other tags and the field name when the env tag
\* gives the empty key
envKeyBlankFallsBack(field, prefix) ==
    IF field.tags["env"] = << "-" >> THEN [key |-> << >>, ok |-> FALSE]
    ELSE LET first == toEnvKey(envKeyName(field))
             key == IF first # << >> THEN first
                    ELSE toEnvKey(envKeyName([field EXCEPT
                                                 !.tags["env"] = << >>]))
         IN IF key = << >> THEN [key |-> << >>, ok |-> FALSE]
            ELSE IF prefix # << >>
                 THEN [key |-> prefix \o << "_" >> \o key, ok |-> TRUE]
                 ELSE [key |-> key, ok |-> TRUE]

\* envKey returns (key, ok) as [key, ok]
envKey(field, prefix) ==
    IF field.tags["env"] = << "-" >> THEN [key |-> << >>, ok |-> FALSE]
    ELSE LET key == toEnvKey(envKeyName(field)) IN
         IF key = << >> THEN [key |-> << >>, ok |-> FALSE]
         ELSE IF prefix # << >>
              THEN [key |-> prefix \o << "_" >> \o key, ok |-> TRUE]
              ELSE [key |-> key, ok |-> TRUE]

\* ------------------------------------------------------------------------
\* Destination records
\* A struct type is a sequence of fields in declaration order.  A field of
\* kind "struct" names its struct type in elem; ptr says the field is a
\* pointer to its kind (*int, *nested).
\* ------------------------------------------------------------------------
NoTags == [t \in {"env", "konfig", "json", "yaml", "toml"} |-> << >>]

\* the tags of a field declared with `env:"-"`
SkipTag == [NoTags EXCEPT !["env"] = << "-" >>]

Field(name, kind, ptr, bits, elem, tags) ==
    [name |-> name, exported |-> IsUpper(name[1]), kind |-> kind,
     ptr |-> ptr, bits |-> bits, elem |-> elem, tags |-> tags]

\* type Node struct { Name string; Next *Node }
\*
\* type Config struct {
\*     Server      string
\*     Timeout     *int
\*     Database    struct{ Port int; Pool struct{ Size int } }
\*     Nested      *nested            // nested{ Value string }
\*     Credentials Credentials        // Credentials{ Username string `env:"APP_USER"` }
\*     Debug       bool
\*     Secret      string                  `env:"-" json:"token"`
\*     Internal    struct{ Token string }  `env:"-"`
\*     Shadow      *nested                 `env:"-"`
\*     hidden      string
\*     Blank       string                  `env:" " json:"empty"`
\*     Level       int8
\*     Retries     uint8
\*     Tags        []string
\* }
StructTypes ==
    [Config |->
        << Field(<<"S","e","r","v","e","r">>, "string", FALSE, 0, "", NoTags),
           Field(<<"T","i","m","e","o","u","t">>, "int", TRUE, 64, "", NoTags),
           Field(<<"D","a","t","a","b","a","s","e">>, "struct", FALSE, 0,
                 "Database", NoTags),
           Field(<<"N","e","s","t","e","d">>, "struct", TRUE, 0, "nested",
                 NoTags),
           Field(<<"C","r","e","d","e","n","t","i","a","l","s">>, "struct",
                 FALSE, 0, "Credentials", NoTags),
           Field(<<"D","e","b","u","g">>, "bool", FALSE, 0, "", NoTags),
           Field(<<"S","e","c","r","e","t">>, "string", FALSE, 0, "",
                 [SkipTag EXCEPT !["json"] = <<"t","o","k","e","n">>]),
           Field(<<"I","n","t","e","r","n","a","l">>, "struct", FALSE, 0,
                 "Internal", SkipTag),
           Field(<<"S","h","a","d","o","w">>, "struct", TRUE, 0, "nested",
                 SkipTag),
           Field(<<"h","i","d","d","e","n">>, "string", FALSE, 0, "", NoTags),
           Field(<<"B","l","a","n","k">>, "string", FALSE, 0, "",
                 [NoTags EXCEPT !["env"] = << " " >>,
                                !["json"] = <<"e","m","p","t","y">>]),
           Field(<<"L","e","v","e","l">>, "int", FALSE, 8, "", NoTags),
           Field(<<"R","e","t","r","i","e","s">>, "uint", FALSE, 8, "", NoTags),
           Field(<<"T","a","g","s">>, "slice", FALSE, 0, "", NoTags)
        >>,
     Database |->
        << Field(<<"P","o","r","t">>, "int", FALSE, 64, "", NoTags),
           Field(<<"P","o","o","l">>, "struct", FALSE, 0, "Pool", NoTags) >>,
     Pool |->
        << Field(<<"S","i","z","e">>, "int", FALSE, 64, "", NoTags) >>,
     Internal |->
        << Field(<<"T","o","k","e","n">>, "string", FALSE, 0, "", NoTags) >>,
     nested |->
        << Field(<<"V","a","l","u","e">>, "string", FALSE, 0, "", NoTags) >>,
     Credentials |->
        << Field(<<"U","s","e","r","n","a","m","e">>, "string", FALSE, 0, "",
                 [NoTags EXCEPT !["env"] = <<"A","P","P","_","U","S","E","R">>])
        >>,
     Node |->
        << Field(<<"N","a","m","e">>, "string", FALSE, 0, "", NoTags),
           Field(<<"N","e","x","t">>, "struct", TRUE, 0, "Node", NoTags) >>]

\* field paths of the record, as sequences of field indexes
pServer   == << 1 >>
pTimeout  == << 2 >>
pDatabase == << 3 >>
pDbPort   == << 3, 1 >>
pNested   == << 4 >>
pValue    == << 4, 1 >>
pCreds    == << 5 >>
pUsername == << 5, 1 >>
pPool     == << 3, 2 >>
pPoolSize == << 3, 2, 1 >>
pDebug    == << 6 >>
pSecret   == << 7 >>
pInternal == << 8 >>
pToken    == << 8, 1 >>
pShadow   == << 9 >>
pShadowValue == << 9, 1 >>
pHidden   == << 10 >>
pBlank    == << 11 >>
pLevel    == << 12 >>
pRetries  == << 13 >>
pTags     == << 14 >>

RECURSIVE PathsOf(_, _)
PathsOf(type, base) ==
    UNION { LET f == StructTypes[type][i]
                p == Append(base, i)
            IN  IF f.kind = "struct" THEN {p} \cup PathsOf(f.elem, p)
                ELSE {p}
            : i \in 1..Len(StructTypes[type]) }

RECURSIVE FieldAtIn(_, _)
FieldAtIn(type, p) ==
    LET f == StructTypes[type][Head(p)] IN
    IF Len(p) = 1 THEN f ELSE FieldAtIn(f.elem, Tail(p))

\* the struct field a path of Config denotes
FieldAt(p) == FieldAtIn("Config", p)

\* a stored value: nil is the pointer state of a pointer field, s / n / b
\* the string, integer and boolean value (for a []string field s holds the
\* elements, each of one character)
ZeroCell(isPtr) == [nil |-> isPtr, s |-> << >>, n |-> 0, b |-> FALSE]

\* the zero value of the destination (every pointer nil)
ZeroRecord == [p \in PathsOf("Config", << >>) |-> ZeroCell(FieldAt(p).ptr)]

\* the pointee of a destination that is a pointer to a non-struct (new(int))
ZeroInt == [p \in {<< >>} |-> ZeroCell(FALSE)]

IsPrefixOf(a, b) == Len(a) <= Len(b) /\ SubSeq(b, 1, Len(a)) = a

\* ------------------------------------------------------------------------
\* Errors
\* ------------------------------------------------------------------------
NoErr == [kind |-> "nil", name |-> << >>, msg |-> ""]

ErrNoSources ==
    [kind |-> "ErrNoSources", name |-> << >>,
     msg |-> "konfig: no configuration sources found"]

Err(kind, name, msg) == [kind |-> kind, name |-> name, msg |-> msg]

\* ------------------------------------------------------------------------
\* strconv
\* ------------------------------------------------------------------------
DigitVal(c) == (CHOOSE i \in 1..Len(DigitSeq) : DigitSeq[i] = c) - 1

AllDigits(s) == \A i \in 1..Len(s) : IsDigit(s[i])

RECURSIVE Decimal(_, _)
Decimal(s, acc) ==
    IF s = << >> THEN acc ELSE Decimal(Tail(s), acc * 10 + DigitVal(Head(s)))

RECURSIVE Pow2(_)
Pow2(k) == IF k = 0 THEN 1 ELSE 2 * Pow2(k - 1)

\* strconv.ParseInt keeping the low bits of a value that is out of range
ParseIntWraps(s, bits) ==
    LET neg  == s # << >> /\ Head(s) = "-"
        body == IF s # << >> /\ Head(s) \in {"+", "-"} THEN Tail(s) ELSE s
    IN  IF body = << >> \/ ~AllDigits(body) THEN [ok |-> FALSE, v |-> 0]
        ELSE LET m == Decimal(body, 0)
                 v == IF neg THEN 0 - m ELSE m
             IN  IF bits <= 30
                 THEN [ok |-> TRUE,
                       v |-> ((v + Pow2(bits - 1)) % Pow2(bits))
                             - Pow2(bits - 1)]
                 ELSE [ok |-> TRUE, v |-> v]

\* The limits of a bit size above 30 exceed the checker's integers; the
\* values of the model are short and stay inside them, so only the narrower
\* sizes are range-checked.
\* strconv.ParseInt(s, 10, bits) as [ok, v]
ParseInt(s, bits) ==
    LET neg  == s # << >> /\ Head(s) = "-"
        body == IF s # << >> /\ Head(s) \in {"+", "-"} THEN Tail(s) ELSE s
    IN  IF body = << >> \/ ~AllDigits(body) THEN [ok |-> FALSE, v |-> 0]
        ELSE LET m == Decimal(body, 0)
                 v == IF neg THEN 0 - m ELSE m
             IN  IF bits <= 30
                    /\ (v < 0 - Pow2(bits - 1) \/ v > Pow2(bits - 1) - 1)
                 THEN [ok |-> FALSE, v |-> 0]
                 ELSE [ok |-> TRUE, v |-> v]

\* strconv.ParseUint(s, 10, bits) as [ok, v]: no sign is accepted
ParseUint(s, bits) ==
    IF s = << >> \/ ~AllDigits(s) THEN [ok |-> FALSE, v |-> 0]
    ELSE LET v == Decimal(s, 0) IN
         IF bits <= 30 /\ v > Pow2(bits) - 1
         THEN [ok |-> FALSE, v |-> 0]
         ELSE [ok |-> TRUE, v |-> v]

\* strconv.ParseBool as [ok, v]
ParseBool(s) ==
    IF s \in { <<"1">>, <<"t">>, <<"T">>, <<"T","R","U","E">>,
               <<"t","r","u","e">>, <<"T","r","u","e">> }
    THEN [ok |-> TRUE, v |-> TRUE]
    ELSE IF s \in { <<"0">>, <<"f">>, <<"F">>, <<"F","A","L","S","E">>,
                    <<"f","a","l","s","e">>, <<"F","a","l","s","e">> }
         THEN [ok |-> TRUE, v |-> FALSE]
         ELSE [ok |-> FALSE, v |-> FALSE]

\* assignFromString with a value already in the field taking precedence
assignFromStringKeepsSet(f, cell, value) ==
    LET c == IF f.ptr /\ cell.nil THEN [cell EXCEPT !.nil = FALSE] ELSE cell
    IN  IF cell.s # << >> \/ cell.n # 0 THEN [cell |-> c, err |-> ""]
        ELSE CASE f.kind = "string" ->
                    [cell |-> [c EXCEPT !.s = value], err |-> ""]
               [] f.kind = "int" ->
                    LET r == ParseInt(value, f.bits) IN
                    IF r.ok THEN [cell |-> [c EXCEPT !.n = r.v], err |-> ""]
                    ELSE [cell |-> c, err |-> "strconv.ParseInt"]
               [] OTHER -> [cell |-> c, err |-> "unsupported kind"]

\* assignFromString returning nil for a kind it has no case for
assignFromStringAnyKind(f, cell, value) ==
    LET c == IF f.ptr /\ cell.nil THEN [cell EXCEPT !.nil = FALSE] ELSE cell
    IN  CASE f.kind = "string" ->
               [cell |-> [c EXCEPT !.s = value], err |-> ""]
          [] f.kind = "bool" ->
               LET r == ParseBool(value) IN
               IF r.ok THEN [cell |-> [c EXCEPT !.b = r.v], err |-> ""]
               ELSE [cell |-> c, err |-> "strconv.ParseBool: invalid syntax"]
          [] f.kind = "int" ->
               LET r == ParseInt(value, f.bits) IN
               IF r.ok THEN [cell |-> [c EXCEPT !.n = r.v], err |-> ""]
               ELSE [cell |-> c, err |-> "strconv.ParseInt"]
          [] f.kind = "uint" ->
               LET r == ParseUint(value, f.bits) IN
               IF r.ok THEN [cell |-> [c EXCEPT !.n = r.v], err |-> ""]
               ELSE [cell |-> c, err |-> "strconv.ParseUint"]
          [] OTHER -> [cell |-> c, err |-> ""]

\* assignFromString dropping a value it cannot parse
assignFromStringSilent(f, cell, value) ==
    LET c == IF f.ptr /\ cell.nil THEN [cell EXCEPT !.nil = FALSE] ELSE cell
    IN  CASE f.kind = "string" ->
               [cell |-> [c EXCEPT !.s = value], err |-> ""]
          [] f.kind = "bool" ->
               LET r == ParseBool(value) IN
               [cell |-> IF r.ok THEN [c EXCEPT !.b = r.v] ELSE c, err |-> ""]
          [] f.kind = "int" ->
               LET r == ParseInt(value, f.bits) IN
               [cell |-> IF r.ok THEN [c EXCEPT !.n = r.v] ELSE c, err |-> ""]
          [] OTHER -> [cell |-> c, err |-> "unsupported kind"]

\* ------------------------------------------------------------------------
\* assignFromString: the new cell of the field and the error, as [cell, err]
\* (a nil pointer is allocated before the value is parsed)
\* ------------------------------------------------------------------------
assignFromString(f, cell, value) ==
    LET c == IF f.ptr /\ cell.nil THEN [cell EXCEPT !.nil = FALSE] ELSE cell
    IN  CASE f.kind = "string" ->
               [cell |-> [c EXCEPT !.s = value], err |-> ""]
          [] f.kind = "bool" ->
               LET r == ParseBool(value) IN
               IF r.ok THEN [cell |-> [c EXCEPT !.b = r.v], err |-> ""]
               ELSE [cell |-> c, err |-> "strconv.ParseBool: invalid syntax"]
          [] f.kind = "int" ->
               LET r == ParseInt(value, f.bits) IN
               IF r.ok THEN [cell |-> [c EXCEPT !.n = r.v], err |-> ""]
               ELSE [cell |-> c, err |-> "strconv.ParseInt"]
          [] f.kind = "uint" ->
               LET r == ParseUint(value, f.bits) IN
               IF r.ok THEN [cell |-> [c EXCEPT !.n = r.v], err |-> ""]
               ELSE [cell |-> c, err |-> "strconv.ParseUint"]
          [] OTHER -> [cell |-> c, err |-> "unsupported kind"]

\* ------------------------------------------------------------------------
\* setStructFieldsFromEnv
\* st = [rec, applied, err, log, allocs]: the record, the count of fields
\* set at this level and below, the error, the I/O done so far and the
\* number of times the binder allocated each pointer-to-struct field.
\* ------------------------------------------------------------------------
Event(op, name) == [op |-> op, name |-> name]

\* every field taken as exported
IsExportedAlways(f) == TRUE

\* fieldType.IsExported()
IsExported(f) == f.exported

\* os.LookupEnv taking a variable set to the empty string for unset
LookupEnvNonEmpty(e, key) ==
    IF key \in DOMAIN e /\ e[key] # << >>
    THEN [value |-> e[key], ok |-> TRUE]
    ELSE [value |-> << >>, ok |-> FALSE]

\* os.LookupEnv as [value, ok]
LookupEnv(e, key) ==
    IF key \in DOMAIN e THEN [value |-> e[key], ok |-> TRUE]
    ELSE [value |-> << >>, ok |-> FALSE]

\* a pointer-to-struct field given a new pointee whether it is nil or not
EnsurePointeeAlways(st, p) ==
    [st EXCEPT !.allocs[p] = @ + 1,
               !.rec = [q \in DOMAIN st.rec |->
                          IF q = p THEN [st.rec[q] EXCEPT !.nil = FALSE]
                          ELSE IF IsPrefixOf(p, q)
                               THEN ZeroCell(FieldAt(q).ptr)
                               ELSE st.rec[q]]]

\* if fieldValue.IsNil() { fieldValue.Set(reflect.New(...)) }
EnsurePointee(st, p) ==
    IF st.rec[p].nil
    THEN [st EXCEPT !.rec[p].nil = FALSE, !.allocs[p] = @ + 1]
    ELSE st

\* setStructFieldsFromEnv going on with the next field after a fault
RECURSIVE setStructFieldsFromEnvGoesOn(_, _, _, _, _, _)
setStructFieldsFromEnvGoesOn(type, base, prefix, i, st, e) ==
    IF i > Len(StructTypes[type]) THEN st
    ELSE
      LET f   == StructTypes[type][i]
          p   == Append(base, i)
          k   == envKey(f, prefix)
          nxt(s) == setStructFieldsFromEnvGoesOn(type, base, prefix, i + 1, s, e)
          nested(s) ==
              LET r == setStructFieldsFromEnvGoesOn(f.elem, p, k.key, 1,
                                                    [s EXCEPT !.applied = 0], e)
              IN  nxt([r EXCEPT !.applied = s.applied + r.applied])
      IN
      IF ~IsExported(f) THEN nxt(st)
      ELSE IF ~k.ok THEN nxt(st)
      ELSE IF f.kind = "struct" /\ ~f.ptr THEN nested(st)
      ELSE IF f.kind = "struct" /\ f.ptr
      THEN nested(EnsurePointee(st, p))
      ELSE
        LET looked == [st EXCEPT !.log = Append(@, Event("lookup", k.key))]
            v == LookupEnv(e, k.key)
        IN  IF ~v.ok THEN nxt(looked)
            ELSE LET a == assignFromString(f, st.rec[p], v.value) IN
                 IF a.err # ""
                 THEN nxt([looked EXCEPT
                              !.rec[p] = a.cell,
                              !.err = IF @ = NoErr
                                      THEN Err("set", k.key, a.err) ELSE @])
                 ELSE nxt([looked EXCEPT !.rec[p] = a.cell,
                                         !.applied = @ + 1])

RECURSIVE setStructFieldsFromEnv(_, _, _, _, _, _)
setStructFieldsFromEnv(type, base, prefix, i, st, e) ==
    IF i > Len(StructTypes[type]) THEN st
    ELSE
      LET f   == StructTypes[type][i]
          p   == Append(base, i)
          k   == envKey(f, prefix)
          nxt(s) == setStructFieldsFromEnv(type, base, prefix, i + 1, s, e)
          nested(s) ==
              LET r == setStructFieldsFromEnv(f.elem, p, k.key, 1,
                                              [s EXCEPT !.applied = 0], e)
              IN  IF r.err # NoErr THEN [r EXCEPT !.applied = s.applied]
                  ELSE nxt([r EXCEPT !.applied = s.applied + r.applied])
      IN
      IF ~IsExported(f) THEN nxt(st)
      ELSE IF ~k.ok THEN nxt(st)
      ELSE IF f.kind = "struct" /\ ~f.ptr THEN nested(st)
      ELSE IF f.kind = "struct" /\ f.ptr
      THEN nested(EnsurePointee(st, p))
      ELSE
        LET looked == [st EXCEPT !.log = Append(@, Event("lookup", k.key))]
            v == LookupEnv(e, k.key)
        IN  IF ~v.ok THEN nxt(looked)
            ELSE LET a == assignFromString(f, st.rec[p], v.value) IN
                 IF a.err # ""
                 THEN [looked EXCEPT !.rec[p] = a.cell,
                                     !.err = Err("set", k.key, a.err)]
                 ELSE nxt([looked EXCEPT !.rec[p] = a.cell,
                                         !.applied = @ + 1])

\* applyEnvOverrides for a non-nil pointer: target is "struct" or "int"
applyEnvOverrides(target, prefix, st, e) ==
    IF target # "struct"
    THEN [st EXCEPT !.err = Err("validation", << >>,
                          "konfig: env overrides require a pointer to struct")]
    ELSE setStructFieldsFromEnv("Config", << >>, prefix, 1, st, e)

\* ------------------------------------------------------------------------
\* Files
\* ------------------------------------------------------------------------
extJSON == << ".", "j", "s", "o", "n" >>
extTOML == << ".", "t", "o", "m", "l" >>
extYAML == << ".", "y", "a", "m", "l" >>
extYML  == << ".", "y", "m", "l" >>

baseA  == << "a" >>
aJSON  == baseA \o extJSON
aTOML  == baseA \o extTOML
aYAML  == baseA \o extYAML
aYML   == baseA \o extYML
fJSON  == << "f" >> \o extJSON
gYAML  == << "g" >> \o extYAML
eJSON  == << "e" >> \o extJSON
hJSON  == << "h" >> \o extJSON

FilePaths == { aJSON, aTOML, aYAML, aYML, fJSON, gYAML }

sJson   == << "j", "s", "o", "n" >>
sToml   == << "t", "o", "m", "l" >>
sYaml   == << "y", "a", "m", "l" >>
sYml    == << "y", "m", "l" >>
sFirst  == << "f", "i", "r", "s", "t" >>
sSecond == << "s", "e", "c", "o", "n", "d" >>
sG      == << "g" >>

StrCell(v) == [ZeroCell(FALSE) EXCEPT !.s = v]
IntCell(v) == [ZeroCell(FALSE) EXCEPT !.n = v]

\* what each file holds when it exists: the syntax it is written in and the
\* fields it gives a value (e.json is the empty object {}, h.json gives
\* Tags the one element "x")
FileData(file) ==
    CASE file = aJSON -> [syntax |-> "json",
                          sets |-> (pServer :> StrCell(sJson))
                                   @@ (pDbPort :> IntCell(80))]
      [] file = aTOML -> [syntax |-> "toml",
                          sets |-> (pServer :> StrCell(sToml))
                                   @@ (pDbPort :> IntCell(4000))]
      [] file = aYAML -> [syntax |-> "yaml",
                          sets |-> (pServer :> StrCell(sYaml))]
      [] file = aYML  -> [syntax |-> "yaml",
                          sets |-> (pServer :> StrCell(sYml))]
      [] file = fJSON -> [syntax |-> "json",
                          sets |-> (pServer :> StrCell(sFirst))
                                   @@ (pDbPort :> IntCell(1000))]
      [] file = gYAML -> [syntax |-> "yaml",
                          sets |-> (pServer :> StrCell(sSecond))
                                   @@ (pValue :> StrCell(sG))]
      [] file = eJSON -> [syntax |-> "json", sets |-> << >>]
      [] file = hJSON -> [syntax |-> "json",
                          sets |-> (pServer :> StrCell(<< "h" >>))
                                   @@ (pTags :> StrCell(<< "x" >>))]

\* A path of the disk is "missing", "ok" (a regular file with the content
\* FileData gives), "dir" (a directory), "denied" (below a directory that
\* may not be searched), "malformed" (a regular file no decoder can parse)
\* or "mistyped" (the content of FileData and, with it, a string for the
\* boolean field Debug).
NoData == [syntax |-> "", sets |-> << >>, mistyped |-> FALSE]

\* the bytes of a regular file
Content(status, file) ==
    IF status = "malformed" THEN [NoData EXCEPT !.syntax = "malformed"]
    ELSE [syntax |-> FileData(file).syntax, sets |-> FileData(file).sets,
          mistyped |-> status = "mistyped"]

StatusOf(disk, file) == IF file \in DOMAIN disk THEN disk[file] ELSE "missing"

\* os.ReadFile taking a directory for a missing file
ReadFileDirSkipped(disk, file) ==
    IF StatusOf(disk, file) \in { "missing", "dir" }
    THEN [err |-> "notexist", data |-> NoData]
    ELSE IF StatusOf(disk, file) = "denied"
    THEN [err |-> "other", data |-> NoData]
    ELSE [err |-> "", data |-> Content(disk[file], file)]

\* os.ReadFile: err is "" on success, "notexist" for os.ErrNotExist and
\* "other" for any other failure
ReadFile(disk, file) ==
    IF StatusOf(disk, file) = "missing"
    THEN [err |-> "notexist", data |-> NoData]
    ELSE IF StatusOf(disk, file) \in { "dir", "denied" }
    THEN [err |-> "other", data |-> NoData]
    ELSE [err |-> "", data |-> Content(disk[file], file)]

\* filepath.Ext: the suffix from the last dot of the last path element
RECURSIVE ExtFrom(_, _)
ExtFrom(path, i) ==
    IF i < 1 \/ path[i] = "/" THEN << >>
    ELSE IF path[i] = "." THEN SubSeq(path, i, Len(path))
    ELSE ExtFrom(path, i - 1)

Ext(path) == ExtFrom(path, Len(path))

\* the decoders (json.Unmarshal, toml.Unmarshal, yaml.Unmarshal): a decoder
\* rejects data that is not in its syntax (JSON is also YAML) before it
\* writes anything, and an object cannot be decoded into a non-struct
\* target; otherwise every field the data names is set and the pointers on
\* the way are allocated.  The JSON decoder (the YAML decoder runs it on the
\* converted document) skips a value of the wrong type, goes on with the
\* other fields and reports the mismatch when it is through.  The result is
\* [ok, rec, ran], ran the decoders that were run, in order.
Accepts(decoder, syntax) ==
    \/ decoder = "json" /\ syntax = "json"
    \/ decoder = "toml" /\ syntax = "toml"
    \/ decoder = "yaml" /\ syntax \in {"yaml", "json"}

\* a decoder that leaves a field alone once it has a value
UnmarshalKeepsSet(decoder, data, target, r) ==
    IF ~Accepts(decoder, data.syntax) \/ target # "struct"
    THEN [ok |-> FALSE, rec |-> r, ran |-> << decoder >>]
    ELSE [ok |-> TRUE, ran |-> << decoder >>,
          rec |-> [p \in DOMAIN r |->
                     IF p \in DOMAIN data.sets /\ r[p] = ZeroCell(r[p].nil)
                     THEN data.sets[p]
                     ELSE IF \E q \in DOMAIN data.sets :
                                 IsPrefixOf(p, q) /\ r[p].nil
                          THEN [r[p] EXCEPT !.nil = FALSE]
                          ELSE r[p]]]

Unmarshal(decoder, data, target, r) ==
    IF ~Accepts(decoder, data.syntax) \/ target # "struct"
    THEN [ok |-> FALSE, rec |-> r, ran |-> << decoder >>]
    ELSE [ok |-> ~data.mistyped, ran |-> << decoder >>,
          rec |-> [p \in DOMAIN r |->
                     IF p \in DOMAIN data.sets THEN data.sets[p]
                     ELSE IF \E q \in DOMAIN data.sets :
                                 IsPrefixOf(p, q) /\ r[p].nil
                          THEN [r[p] EXCEPT !.nil = FALSE]
                          ELSE r[p]]]

DecodeErr(file) == Err("decode", file, "konfig: decode")

\* one more decoder tried after those of before
Then(before, after) == [after EXCEPT !.ran = before.ran \o @]

\* tryFallbackDecoders trying JSON before TOML
tryFallbackDecodersJsonFirst(data, target, r) ==
    LET j == Unmarshal("json", data, target, r) IN
    IF j.ok THEN j
    ELSE LET t == Then(j, Unmarshal("toml", data, target, j.rec)) IN
         IF t.ok THEN t
         ELSE Then(t, Unmarshal("yaml", data, target, t.rec))

tryFallbackDecoders(data, target, r) ==
    LET t == Unmarshal("toml", data, target, r) IN
    IF t.ok THEN t
    ELSE LET j == Then(t, Unmarshal("json", data, target, t.rec)) IN
         IF j.ok THEN j
         ELSE Then(j, Unmarshal("yaml", data, target, j.rec))

\* unmarshalByExtension with the decoder's error dropped
unmarshalByExtensionLenient(file, data, target, r) ==
    [err |-> NoErr, rec |-> Unmarshal("yaml", data, target, r).rec,
     ran |-> << "yaml" >>]

\* unmarshalByExtension as [err, rec, ran]
unmarshalByExtension(file, data, target, r) ==
    LET ext == StrToLower(Ext(file))
        d == CASE ext = extJSON -> Unmarshal("json", data, target, r)
               [] ext = extTOML -> Unmarshal("toml", data, target, r)
               [] ext \in {extYAML, extYML} ->
                      Unmarshal("yaml", data, target, r)
               [] OTHER -> tryFallbackDecoders(data, target, r)
    IN  [err |-> IF d.ok THEN NoErr ELSE DecodeErr(file), rec |-> d.rec,
         ran |-> d.ran]

\* loadFirstAvailable: st.loaded and st.err are the two results
RECURSIVE loadFirstAvailable(_, _, _, _)
loadFirstAvailable(files, target, st, disk) ==
    IF files = << >> THEN [st EXCEPT !.loaded = FALSE]
    ELSE
      LET file == TrimSpace(Head(files)) IN
      IF file = << >>
      THEN loadFirstAvailable(Tail(files), target, st, disk)
      ELSE
        LET rd == ReadFile(disk, file)
            s1 == [st EXCEPT !.log = Append(@, Event("read", file))]
        IN
        IF rd.err = "notexist"
        THEN loadFirstAvailable(Tail(files), target, s1, disk)
        ELSE IF rd.err # ""
        THEN [s1 EXCEPT !.loaded = FALSE,
                        !.err = Err("read", file, "konfig: read")]
        ELSE
          LET u == unmarshalByExtension(file, rd.data, target, s1.rec)
              s2 == [s1 EXCEPT !.rec = u.rec,
                               !.log = Append(@, Event("decode", file))]
          IN  IF u.err # NoErr
              THEN [s2 EXCEPT !.loaded = FALSE, !.err = u.err]
              ELSE [s2 EXCEPT !.loaded = TRUE]

\* loadSequential: st.loaded and st.err are the two results
RECURSIVE loadSequential(_, _, _, _)
loadSequential(files, target, st, disk) ==
    IF files = << >> THEN st
    ELSE
      LET file == TrimSpace(Head(files)) IN
      IF file = << >>
      THEN loadSequential(Tail(files), target, st, disk)
      ELSE
        LET rd == ReadFile(disk, file)
            s1 == [st EXCEPT !.log = Append(@, Event("read", file))]
        IN
        IF rd.err = "notexist"
        THEN loadSequential(Tail(files), target, s1, disk)
        ELSE IF rd.err # ""
        THEN [s1 EXCEPT !.err = Err("read", file, "konfig: read")]
        ELSE
          LET u == unmarshalByExtension(file, rd.data, target, s1.rec)
              s2 == [s1 EXCEPT !.rec = u.rec,
                               !.log = Append(@, Event("decode", file))]
          IN  IF u.err # NoErr
              THEN [s2 EXCEPT !.err = u.err]
              ELSE loadSequential(Tail(files), target,
                                  [s2 EXCEPT !.loaded = TRUE], disk)

\* ------------------------------------------------------------------------
\* Options
\* ------------------------------------------------------------------------
WithEnvPrefix(prefix) ==
    [op |-> "WithEnvPrefix", str |-> prefix, files |-> << >>]

WithFiles(files) == [op |-> "WithFiles", str |-> << >>, files |-> files]

withBase(base) == [op |-> "withBase", str |-> base, files |-> << >>]

\* options{}
ZeroOptions == [envPrefix |-> << >>, files |-> << >>, base |-> << >>]

\* WithFiles putting its paths in the place of those collected
ApplyOptionFilesReplace(opt, o) ==
    CASE opt.op = "WithEnvPrefix" -> [o EXCEPT !.envPrefix = opt.str]
      [] opt.op = "WithFiles"     -> [o EXCEPT !.files = opt.files]
      [] opt.op = "withBase"      -> [o EXCEPT !.base = opt.str]

\* the closure an Option is, applied to the settings
ApplyOption(opt, o) ==
    CASE opt.op = "WithEnvPrefix" -> [o EXCEPT !.envPrefix = opt.str]
      [] opt.op = "WithFiles"     -> [o EXCEPT !.files = @ \o opt.files]
      [] opt.op = "withBase"      -> [o EXCEPT !.base = opt.str]

\* for _, opt := range opts { opt(&cfg) }
RECURSIVE ApplyOptions(_, _)
ApplyOptions(os, o) ==
    IF os = << >> THEN o
    ELSE ApplyOptions(Tail(os), ApplyOption(Head(os), o))

\* ------------------------------------------------------------------------
\* Load
\* config is the kind of the destination argument: "nil" (the nil
\* interface), "value" (not a pointer), "nilptr" (a nil pointer), "ptrint"
\* (a pointer to a non-struct) or "ptrstruct" (*Config); r is the pointee.
\* The result is [err, rec, log, allocs, cfg, loaded, applied].
\* ------------------------------------------------------------------------
DestKinds == {"nil", "value", "nilptr", "ptrint", "ptrstruct"}

\* the candidates of a base name, probed in the wrong order
baseFilesTomlFirst(base) ==
    << base \o extTOML, base \o extJSON, base \o extYAML, base \o extYML >>

\* baseFiles := []string{base + ".json", ".toml", ".yaml", ".yml"}
baseFiles(base) ==
    << base \o extJSON, base \o extTOML, base \o extYAML, base \o extYML >>

\* the no-sources test with the negation dropped
noSourcesNegationDropped(isLoaded, count) == isLoaded /\ count = 0

\* if !loaded && applied == 0 { return ErrNoSources }
noSources(isLoaded, count) == ~isLoaded /\ count = 0

Target(config) == IF config = "ptrstruct" THEN "struct" ELSE "int"

\* the state of a call that has validated config and built its settings
LoadStart(r, os) ==
    [rec |-> r, applied |-> 0, err |-> NoErr, log |-> << >>,
     allocs |-> [p \in DOMAIN r |-> 0], loaded |-> FALSE,
     cfg |-> ApplyOptions(os, ZeroOptions)]

\* if cfg.base != "" { baseLoaded, err := loadFirstAvailable(...) }
LoadBase(target, s, disk) ==
    IF s.cfg.base # << >>
    THEN loadFirstAvailable(baseFiles(s.cfg.base), target, s, disk)
    ELSE s

\* loaded = loaded || fileLoaded
OrLoaded(before, q) ==
    IF q.err # NoErr THEN q ELSE [q EXCEPT !.loaded = before \/ q.loaded]

\* if len(cfg.files) > 0 { fileLoaded, err := loadSequential(...) }
LoadFiles(target, s, disk) ==
    IF s.err # NoErr THEN s
    ELSE IF Len(s.cfg.files) > 0
         THEN OrLoaded(s.loaded,
                       loadSequential(s.cfg.files, target,
                                      [s EXCEPT !.loaded = FALSE], disk))
         ELSE s

\* the return of Load once the binder is through
LoadResult(s) ==
    IF s.err # NoErr THEN s
    ELSE IF noSources(s.loaded, s.applied)
         THEN [s EXCEPT !.err = ErrNoSources]
         ELSE s

\* applied, err := applyEnvOverrides(rv, cfg.envPrefix), and the return
LoadEnv(target, s, e) ==
    IF s.err # NoErr THEN s
    ELSE LoadResult(applyEnvOverrides(target, s.cfg.envPrefix, s, e))

Load(config, r, os, disk, e) ==
    IF config = "nil"
    THEN [LoadStart(r, << >>) EXCEPT
             !.err = Err("validation", << >>,
                         "konfig: config must not be nil")]
    ELSE IF config \in {"value", "nilptr"}
    THEN [LoadStart(r, << >>) EXCEPT
             !.err = Err("validation", << >>,
                         "konfig: config must be a non-nil pointer")]
    ELSE LoadEnv(Target(config),
                 LoadFiles(Target(config),
                           LoadBase(Target(config), LoadStart(r, os), disk),
                           disk),
                 e)

\* ------------------------------------------------------------------------
\* The environment of a call: the files on disk and the process environment
\* ------------------------------------------------------------------------
MaxFiles == 2
MaxEnv   == 1

prefixAPP == << "A", "P", "P" >>

kServer       == << "S","E","R","V","E","R" >>
kTimeout      == << "T","I","M","E","O","U","T" >>
kDbPort       == << "D","A","T","A","B","A","S","E","_","P","O","R","T" >>
kNestedValue  == << "N","E","S","T","E","D","_","V","A","L","U","E" >>
kAppUser      == << "A","P","P","_","U","S","E","R" >>
kCredsAppUser ==
    << "C","R","E","D","E","N","T","I","A","L","S","_" >> \o kAppUser

kAppServer       == prefixAPP \o << "_" >> \o kServer
kAppTimeout      == prefixAPP \o << "_" >> \o kTimeout
kAppDbPort       == prefixAPP \o << "_" >> \o kDbPort
kAppNestedValue  == prefixAPP \o << "_" >> \o kNestedValue
kAppCredsAppUser == prefixAPP \o << "_" >> \o kCredsAppUser

vEnv  == << "e", "n", "v" >>
v7777 == << "7", "7", "7", "7" >>
v15   == << "1", "5" >>
vSvc  == << "s", "v", "c" >>

\* the variables a test may set, each with the value it is given
EnvPairs ==
    { << kServer, vEnv >>, << kAppServer, vEnv >>, << kAppTimeout, v15 >>,
      << kAppDbPort, v7777 >>, << kAppNestedValue, vEnv >>,
      << kAppUser, vSvc >>, << kAppCredsAppUser, vSvc >> }

EnvOf(pairs) ==
    [k \in { q[1] : q \in pairs } |-> (CHOOSE q \in pairs : q[1] = k)[2]]

Environments ==
    { EnvOf(ps) : ps \in { s \in SUBSET EnvPairs :
                             /\ Cardinality(s) <= MaxEnv
                             /\ \A a, b \in s : a[1] = b[1] => a = b } }

Disks ==
    { d \in [FilePaths -> {"missing", "ok"}] :
        Cardinality({ f \in FilePaths : d[f] # "missing" }) <= MaxFiles }

Options ==
    { WithEnvPrefix(prefixAPP), withBase(baseA),
      WithFiles(<< fJSON, gYAML >>) }

\* the sequences over S of length n
RECURSIVE SeqsOfLen(_, _)
SeqsOfLen(S, n) ==
    IF n = 0 THEN { << >> }
    ELSE { Append(q, x) : q \in SeqsOfLen(S, n - 1), x \in S }

\* every order of the members of S
RECURSIVE Perms(_)
Perms(S) ==
    IF S = {} THEN { << >> }
    ELSE UNION { { << x >> \o q : q \in Perms(S \ {x}) } : x \in S }

\* the options of a call: any of Options, each at most once, in any order
OptionLists == UNION { Perms(T) : T \in SUBSET Options }

Bases == { baseA, << "b" >> }

FileLists == UNION { Perms(T) : T \in SUBSET { fJSON, gYAML } } \ { << >> }

\* the record a caller passes: a fresh zero value
Pointee(config) == IF config = "ptrstruct" THEN ZeroRecord ELSE ZeroInt

\* ------------------------------------------------------------------------
\* State
\* ------------------------------------------------------------------------
VARIABLES
    disk,      \* file path -> "missing" | "ok"
    environ,   \* environment key -> value
    pc,        \* "idle" | "returned"
    fn,        \* the entry point of the last call
    config,    \* the kind of its destination argument
    opts,      \* its options
    cfg,       \* the settings built from them
    rec,       \* the destination record
    err,       \* the error returned
    log,       \* the reads, decodes and environment lookups, in order
    allocs,    \* how often the binder allocated each pointer-to-struct
    loaded,    \* Load's loaded flag
    applied,   \* the count applyEnvOverrides returned
    probe,     \* a struct field and a prefix given to envKey
    derived,   \* what envKey returned for them
    rec0,      \* the destination record as the caller passed it
    konfigs,   \* the package variable of the legacy GetConf
    calls,     \* the Load calls running side by side
    stat,      \* a call of GetConfigFilesWithExt: its files and its results
    translit,  \* a name given to toEnvKey and what came back
    dec,       \* a call of unmarshalByExtension: its arguments and results
    walk       \* a pass of the binder over a struct type, frame by frame

vars == << disk, environ, pc, fn, config, opts, cfg, rec, err, log, allocs,
           loaded, applied, probe, derived, rec0, konfigs, calls, stat,
           translit, dec, walk >>

world == << disk, environ >>

loadvars == << pc, fn, config, opts, cfg, rec, err, log, allocs, loaded,
               applied, rec0 >>

keyvars == << probe, derived >>

\* the state of the other entry points
morevars == << dec, walk >>

sidevars == << konfigs, calls, stat, translit, morevars >>

NoProbe ==
    [field |-> Field(<< "N" >>, "string", FALSE, 0, "", NoTags),
     prefix |-> << >>]

NotDerived == [key |-> << >>, ok |-> FALSE, done |-> FALSE]

\* var konfigs interface{}: nil until the first legacy call
NilKonfigs == [nil |-> TRUE, rec |-> ZeroRecord]

NoCalls == << >>

NoStat == [files |-> << >>, matched |-> << >>, err |-> NoErr, done |-> FALSE]

NoTranslit == [name |-> << >>, key |-> << >>, again |-> << >>, done |-> FALSE]

NoDec ==
    [file |-> << >>, data |-> NoData, target |-> "struct", rec |-> ZeroRecord,
     err |-> NoErr, ran |-> << >>, done |-> FALSE]

NoWalk ==
    [pc |-> "idle", root |-> "", prefix |-> << >>, stack |-> << >>,
     visited |-> 0, applied |-> 0, err |-> NoErr]

MoreIdle ==
    /\ dec = NoDec
    /\ walk = NoWalk

\* no other entry point has been used
SideIdle ==
    /\ konfigs = NilKonfigs
    /\ calls = NoCalls
    /\ stat = NoStat
    /\ translit = NoTranslit
    /\ MoreIdle

Idle ==
    /\ pc = "idle"
    /\ fn = ""
    /\ config = "ptrstruct"
    /\ opts = << >>
    /\ cfg = ZeroOptions
    /\ rec = ZeroRecord
    /\ err = NoErr
    /\ log = << >>
    /\ allocs = [p \in DOMAIN ZeroRecord |-> 0]
    /\ loaded = FALSE
    /\ applied = 0
    /\ rec0 = ZeroRecord

Init ==
    /\ disk \in Disks
    /\ environ \in Environments
    /\ Idle
    /\ probe = NoProbe
    /\ derived = NotDerived
    /\ SideIdle

\* a call of Load on the record r0, from its entry to its return
CallOn(name, c, r0, os) ==
    /\ pc = "idle"
    /\ rec0' = r0
    /\ \E r \in { Load(c, r0, os, disk, environ) } :
          /\ pc' = "returned"
          /\ fn' = name
          /\ config' = c
          /\ opts' = os
          /\ cfg' = r.cfg
          /\ rec' = r.rec
          /\ err' = r.err
          /\ log' = r.log
          /\ allocs' = r.allocs
          /\ loaded' = r.loaded
          /\ applied' = r.applied
    /\ UNCHANGED << world, keyvars, sidevars >>

\* a call of Load on a fresh zero value
Call(name, c, os) == CallOn(name, c, Pointee(c), os)

DoLoad == \E c \in DestKinds, os \in OptionLists : Call("Load", c, os)

GetConf ==
    \E c \in DestKinds, base \in Bases :
        Call("GetConf", c, << withBase(base) >>)

LoadConfigFileNoExt ==
    \E c \in DestKinds, base \in Bases :
        Call("LoadConfigFileNoExt", c, << withBase(base) >>)

LoadConfigFiles ==
    \E c \in DestKinds, files \in FileLists :
        Call("LoadConfigFiles", c, << WithFiles(files) >>)

\* the caller drops the record and is ready for the next call
Return ==
    /\ pc = "returned"
    /\ pc' = "idle"
    /\ fn' = ""
    /\ config' = "ptrstruct"
    /\ opts' = << >>
    /\ cfg' = ZeroOptions
    /\ rec' = ZeroRecord
    /\ err' = NoErr
    /\ log' = << >>
    /\ allocs' = [p \in DOMAIN ZeroRecord |-> 0]
    /\ loaded' = FALSE
    /\ applied' = 0
    /\ rec0' = ZeroRecord
    /\ UNCHANGED << world, keyvars, sidevars >>

Next ==
    \/ DoLoad
    \/ GetConf
    \/ LoadConfigFileNoExt
    \/ LoadConfigFiles
    \/ Return

Spec == Init /\ [][Next]_vars

\* ------------------------------------------------------------------------
\* envKey on its own: a field with any combination of tags, with and
\* without a prefix
\* ------------------------------------------------------------------------
TagLetter ==
    [t \in {"env", "konfig", "json", "yaml", "toml"} |->
        CASE t = "env" -> "e" [] t = "konfig" -> "k" [] t = "json" -> "j"
          [] t = "yaml" -> "y" [] t = "toml" -> "t"]

\* the values a tag takes: absent, the skip-sentinel, a name, a name with
\* an option, an option only, the skip-sentinel with an option
TagValues(t) ==
    { << >>, << "-" >>, << TagLetter[t] >>, << TagLetter[t], ",", "o" >>,
      << ",", "o" >>, << "-", ",", "o" >> }

ProbeTags ==
    { [env |-> a, konfig |-> b, json |-> c, yaml |-> d, toml |-> e] :
        a \in TagValues("env"), b \in TagValues("konfig"),
        c \in TagValues("json"), d \in TagValues("yaml"),
        e \in TagValues("toml") }

Probes ==
    { [field |-> Field(<< "N" >>, "string", FALSE, 0, "", tg), prefix |-> px] :
        tg \in ProbeTags, px \in { << >>, prefixAPP } }

InitKey ==
    /\ disk = [f \in FilePaths |-> "missing"]
    /\ environ = EnvOf({})
    /\ Idle
    /\ probe \in Probes
    /\ derived = NotDerived
    /\ SideIdle

DeriveKey ==
    /\ ~derived.done
    /\ \E k \in { envKey(probe.field, probe.prefix) } :
          derived' = [key |-> k.key, ok |-> k.ok, done |-> TRUE]
    /\ UNCHANGED << world, loadvars, probe, sidevars >>

NextKey == DeriveKey

SpecKey == InitKey /\ [][NextKey]_vars

\* ------------------------------------------------------------------------
\* The environment binder on its own: Load with and without a prefix, on a
\* fresh record and on one the caller filled in, with variables named after
\* every field of the record, bound or not
\* ------------------------------------------------------------------------
MaxBindEnv == 2

prefixLower == << "a", "p", "p" >>

kDebug       == << "D","E","B","U","G" >>
kPoolSize    == << "D","A","T","A","B","A","S","E","_","P","O","O","L","_",
                   "S","I","Z","E" >>
kSecret      == << "S","E","C","R","E","T" >>
kTokenTag    == << "T","O","K","E","N" >>
kInternalTok == << "I","N","T","E","R","N","A","L","_","T","O","K","E","N" >>
kShadowValue == << "S","H","A","D","O","W","_","V","A","L","U","E" >>
kHidden      == << "H","I","D","D","E","N" >>
kHiddenName  == << "h","i","d","d","e","n" >>

kLevel       == << "L","E","V","E","L" >>
kRetries     == << "R","E","T","R","I","E","S" >>
kTags        == << "T","A","G","S" >>
kBlank       == << "B","L","A","N","K" >>
kEmpty       == << "E","M","P","T","Y" >>

Under(prefix, key) == prefix \o << "_" >> \o key

vTrue    == << "t", "r", "u", "e" >>
vNope    == << "n", "o", "p", "e" >>
vInitial == << "i", "n", "i", "t", "i", "a", "l" >>

BindPairs ==
    { << kServer, vEnv >>,
      << Under(prefixLower, kServer), vEnv >>,
      << Under(prefixAPP, kServer), vEnv >>,
      << kPoolSize, v15 >>,
      << Under(prefixLower, kPoolSize), v15 >>,
      << Under(prefixAPP, kPoolSize), v15 >>,
      << Under(prefixLower, kNestedValue), vEnv >>,
      << kSecret, vEnv >>,
      << kTokenTag, vEnv >>,
      << Under(prefixAPP, kSecret), vEnv >>,
      << Under(prefixAPP, kTokenTag), vEnv >>,
      << kInternalTok, vEnv >>,
      << Under(prefixAPP, kInternalTok), vEnv >>,
      << kShadowValue, vEnv >>,
      << kHidden, vEnv >>,
      << kHiddenName, vEnv >>,
      << Under(prefixAPP, kHidden), vEnv >>,
      << kDebug, vTrue >>,
      << kDebug, vNope >>,
      << Under(prefixAPP, kDebug), vNope >>,
      << Under(prefixAPP, kDbPort), vNope >>,
      << Under(prefixLower, kPoolSize), vNope >>,
      << kTimeout, vNope >> }

\* the subsets of S of at most k members
RECURSIVE UpTo(_, _)
UpTo(S, k) ==
    IF k = 0 THEN { {} }
    ELSE LET T == UpTo(S, k - 1) IN T \cup { t \cup {x} : t \in T, x \in S }

BindEnvironments ==
    { EnvOf(ps) : ps \in { q \in UpTo(BindPairs, MaxBindEnv) :
                              \A a, b \in q : a[1] = b[1] => a = b } }

\* only the first base candidate may exist
BindDisks == { d \in Disks : \A f \in FilePaths \ { aJSON } : d[f] = "missing" }

\* a record the caller filled in before the call
Prepared ==
    [ZeroRecord EXCEPT ![pHidden].s = vInitial, ![pSecret].s = vInitial]

BindRecords == { ZeroRecord, Prepared }

BindOptionLists ==
    { << >>,
      << WithEnvPrefix(prefixAPP) >>,
      << WithEnvPrefix(prefixLower) >>,
      << withBase(baseA) >>,
      << withBase(baseA), WithEnvPrefix(prefixAPP) >>,
      << WithEnvPrefix(prefixLower), withBase(baseA) >> }

InitBind ==
    /\ disk \in BindDisks
    /\ environ \in BindEnvironments
    /\ Idle
    /\ probe = NoProbe
    /\ derived = NotDerived
    /\ SideIdle

Bind ==
    \E r0 \in BindRecords, os \in BindOptionLists :
        CallOn("Load", "ptrstruct", r0, os)

NextBind == Bind \/ Return

SpecBind == InitBind /\ [][NextBind]_vars

\* ------------------------------------------------------------------------
\* The binder over environments in which several variables are set at
\* once, some to values their fields cannot take
\* ------------------------------------------------------------------------
vX == << "x" >>

OrderPairs ==
    { << kServer, vEnv >>, << kTimeout, vNope >>, << kPoolSize, vNope >>,
      << kDebug, vTrue >>, << kLevel, vNope >>, << kRetries, v15 >>,
      << kTags, vX >> }

OrderEnvironments == { EnvOf(ps) : ps \in SUBSET OrderPairs }

InitOrder ==
    /\ disk \in BindDisks
    /\ environ \in OrderEnvironments
    /\ Idle
    /\ probe = NoProbe
    /\ derived = NotDerived
    /\ SideIdle

BindSeveral ==
    \E os \in { << >>, << withBase(baseA) >> } : Call("Load", "ptrstruct", os)

NextOrder == BindSeveral \/ Return

SpecOrder == InitOrder /\ [][NextOrder]_vars

\* ------------------------------------------------------------------------
\* The binder over environments in which variables are set to the empty
\* string, set to a value, or not set
\* ------------------------------------------------------------------------
vEmpty == << >>

PresentChoices ==
    [Server  : { {}, { << kServer, vEmpty >> }, { << kServer, vEnv >> } },
     Timeout : { {}, { << kTimeout, vEmpty >> }, { << kTimeout, v15 >> } },
     Debug   : { {}, { << kDebug, vEmpty >> } },
     Level   : { {}, { << kLevel, vEmpty >> } },
     Value   : { {}, { << kNestedValue, vEmpty >> } }]

PresentEnvironments ==
    { EnvOf(c.Server \cup c.Timeout \cup c.Debug \cup c.Level \cup c.Value) :
        c \in PresentChoices }

InitPresent ==
    /\ disk \in BindDisks
    /\ environ \in PresentEnvironments
    /\ Idle
    /\ probe = NoProbe
    /\ derived = NotDerived
    /\ SideIdle

BindPresent ==
    \E os \in { << >>, << withBase(baseA) >> } : Call("Load", "ptrstruct", os)

NextPresent == BindPresent \/ Return

SpecPresent == InitPresent /\ [][NextPresent]_vars

\* ------------------------------------------------------------------------
\* The binder over a record whose slice field Tags a file may have set,
\* with the variable of Tags set or not
\* ------------------------------------------------------------------------
KindChoices ==
    [Tags      : { {}, { << kTags, vX >> }, { << kTags, vEmpty >> } },
     Server    : { {}, { << kServer, vEnv >> } },
     AppTags   : { {}, { << Under(prefixAPP, kTags), vX >> } },
     AppServer : { {}, { << Under(prefixAPP, kServer), vEnv >> } }]

KindEnvironments ==
    { EnvOf(c.Tags \cup c.Server \cup c.AppTags \cup c.AppServer) :
        c \in KindChoices }

KindDisks ==
    { [p \in FilePaths \cup { hJSON } |->
          IF p = hJSON THEN x ELSE "missing"] : x \in { "ok", "missing" } }

KindOptionLists ==
    { << >>, << WithFiles(<< hJSON >>) >>, << WithEnvPrefix(prefixAPP) >>,
      << WithEnvPrefix(prefixAPP), WithFiles(<< hJSON >>) >> }

InitKinds ==
    /\ disk \in KindDisks
    /\ environ \in KindEnvironments
    /\ Idle
    /\ probe = NoProbe
    /\ derived = NotDerived
    /\ SideIdle

BindKinds == \E os \in KindOptionLists : Call("Load", "ptrstruct", os)

NextKinds == BindKinds \/ Return

SpecKinds == InitKinds /\ [][NextKinds]_vars

\* ------------------------------------------------------------------------
\* The binder over the int8 field Level and the uint8 field Retries, their
\* variables set to numerals at and beyond the limits of eight bits, on a
\* record that is zero or that the caller gave values
\* ------------------------------------------------------------------------
WidthValues ==
    { << "0" >>, << "5" >>, << "+", "5" >>, << "-", "5" >>, << "-", "1" >>,
      << "1", "2", "7" >>, << "1", "2", "8" >>, << "-", "1", "2", "8" >>,
      << "-", "1", "2", "9" >>, << "2", "5", "5" >>, << "2", "5", "6" >>,
      << "1", "2", "a" >> }

WidthChoices ==
    [Level   : { {} } \cup { { << kLevel, v >> } : v \in WidthValues },
     Retries : { {} } \cup { { << kRetries, v >> } : v \in WidthValues }]

WidthEnvironments == { EnvOf(c.Level \cup c.Retries) : c \in WidthChoices }

\* a record the caller gave Level and Retries a value
Tuned == [ZeroRecord EXCEPT ![pLevel].n = 7, ![pRetries].n = 9]

InitWidth ==
    /\ disk = [p \in FilePaths |-> "missing"]
    /\ environ \in WidthEnvironments
    /\ Idle
    /\ probe = NoProbe
    /\ derived = NotDerived
    /\ SideIdle

BindWidth ==
    \E r0 \in { ZeroRecord, Tuned } : CallOn("Load", "ptrstruct", r0, << >>)

NextWidth == BindWidth \/ Return

SpecWidth == InitWidth /\ [][NextWidth]_vars

\* ------------------------------------------------------------------------
\* The binder over the field Blank, whose env tag is a space, with the
\* variables its other tag, its name and the bare prefix would give
\* ------------------------------------------------------------------------
v5 == << "5" >>

BlankPairs ==
    { << kBlank, vX >>, << kEmpty, vX >>, << Under(prefixAPP, kBlank), vX >>,
      << Under(prefixAPP, kEmpty), vX >>, << Under(prefixAPP, << >>), vX >>,
      << kLevel, v5 >>, << Under(prefixAPP, kLevel), v5 >> }

BlankEnvironments == { EnvOf(ps) : ps \in SUBSET BlankPairs }

\* a record the caller gave Blank a value
BlankFilled == [ZeroRecord EXCEPT ![pBlank].s = vInitial]

InitBlank ==
    /\ disk = [p \in FilePaths |-> "missing"]
    /\ environ \in BlankEnvironments
    /\ Idle
    /\ probe = NoProbe
    /\ derived = NotDerived
    /\ SideIdle

BindBlank ==
    \E r0 \in { ZeroRecord, BlankFilled },
       os \in { << >>, << WithEnvPrefix(prefixAPP) >> } :
        CallOn("Load", "ptrstruct", r0, os)

NextBlank == BindBlank \/ Return

SpecBlank == InitBlank /\ [][NextBlank]_vars

\* ------------------------------------------------------------------------
\* setStructFieldsFromEnv frame by frame, on the zero value of a struct
\* type.  A frame is one activation, [type, i, prefix]: the struct type,
\* the index of the field the loop is at and the prefix argument.  Every
\* cell the pass comes to is zero and every pointer nil, since the record
\* is the zero value and a pointer the pass allocates points to one.  The
\* goroutine stack holds MaxDepth frames; one more ends the process
\* ("overflow").
\* ------------------------------------------------------------------------
MaxDepth == 5

kName     == << "N","A","M","E" >>
kNextName == << "N","E","X","T","_","N","A","M","E" >>

WalkRoots == { "Config", "Database", "Node" }

WalkEnvironments ==
    { EnvOf({}), EnvOf({ << kServer, vEnv >> }), EnvOf({ << kName, vX >> }),
      EnvOf({ << kNextName, vX >> }), EnvOf({ << kTimeout, vNope >> }),
      EnvOf({ << Under(prefixAPP, kPoolSize), v15 >> }) }

Frame(type, prefix) == [type |-> type, i |-> 1, prefix |-> prefix]

Top == walk.stack[Len(walk.stack)]

\* the stack with the loop of the top frame at its next field
Advanced == [walk.stack EXCEPT ![Len(walk.stack)].i = @ + 1]

InitWalk ==
    /\ disk = [p \in FilePaths |-> "missing"]
    /\ environ \in WalkEnvironments
    /\ Idle
    /\ probe = NoProbe
    /\ derived = NotDerived
    /\ konfigs = NilKonfigs
    /\ calls = NoCalls
    /\ stat = NoStat
    /\ translit = NoTranslit
    /\ dec = NoDec
    /\ walk = NoWalk

\* applyEnvOverrides calls setStructFieldsFromEnv(elem, prefix)
WalkEnter ==
    /\ walk.pc = "idle"
    /\ \E root \in WalkRoots, prefix \in { << >>, prefixAPP } :
          walk' = [walk EXCEPT !.pc = "walking", !.root = root,
                               !.prefix = prefix,
                               !.stack = << Frame(root, prefix) >>]
    /\ UNCHANGED << world, loadvars, keyvars, konfigs, calls, stat, translit,
                    dec >>

\* one iteration of the loop of the top frame
WalkField ==
    /\ walk.pc = "walking"
    /\ Top.i <= Len(StructTypes[Top.type])
    /\ LET f == StructTypes[Top.type][Top.i]
           k == envKey(f, Top.prefix)
           v == LookupEnv(environ, k.key)
           a == assignFromString(f, ZeroCell(f.ptr), v.value)
       IN  walk' =
             IF ~IsExported(f) \/ ~k.ok
             THEN [walk EXCEPT !.stack = Advanced]
             ELSE IF f.kind = "struct"
             THEN IF Len(walk.stack) = MaxDepth
                  THEN [walk EXCEPT !.pc = "overflow"]
                  ELSE [walk EXCEPT
                           !.stack = Append(Advanced, Frame(f.elem, k.key))]
             ELSE IF ~v.ok
             THEN [walk EXCEPT !.stack = Advanced, !.visited = @ + 1]
             ELSE IF a.err # ""
             THEN [walk EXCEPT !.pc = "returned", !.visited = @ + 1,
                               !.err = Err("set", k.key, a.err)]
             ELSE [walk EXCEPT !.stack = Advanced, !.visited = @ + 1,
                               !.applied = @ + 1]
    /\ UNCHANGED << world, loadvars, keyvars, konfigs, calls, stat, translit,
                    dec >>

\* the loop of the top frame is through: return applied, nil
WalkLeave ==
    /\ walk.pc = "walking"
    /\ Top.i > Len(StructTypes[Top.type])
    /\ walk' = [walk EXCEPT
                   !.stack = SubSeq(@, 1, Len(@) - 1),
                   !.pc = IF Len(walk.stack) = 1 THEN "returned" ELSE @]
    /\ UNCHANGED << world, loadvars, keyvars, konfigs, calls, stat, translit,
                    dec >>

NextWalk == WalkEnter \/ WalkField \/ WalkLeave

SpecWalk == InitWalk /\ [][NextWalk]_vars

\* ------------------------------------------------------------------------
\* The binder over a record whose pointer Nested the caller or g.yaml has
\* set before the binder comes to it
\* ------------------------------------------------------------------------
PointeeChoices ==
    [Value    : { {}, { << kNestedValue, vEnv >> },
                  { << kNestedValue, vEmpty >> } },
     AppValue : { {}, { << Under(prefixAPP, kNestedValue), vEnv >> } },
     Server   : { {}, { << kServer, vEnv >> } },
     Timeout  : { {}, { << kTimeout, v15 >> } }]

PointeeEnvironments ==
    { EnvOf(c.Value \cup c.AppValue \cup c.Server \cup c.Timeout) :
        c \in PointeeChoices }

PointeeDisks ==
    { d \in Disks : \A f \in FilePaths \ { gYAML } : d[f] = "missing" }

\* a record whose Nested the caller pointed at nested{Value: "initial"}
Linked ==
    [ZeroRecord EXCEPT ![pNested].nil = FALSE, ![pValue].s = vInitial]

PointeeOptionLists ==
    { << >>, << WithFiles(<< gYAML >>) >>, << WithEnvPrefix(prefixAPP) >>,
      << WithFiles(<< gYAML >>), WithEnvPrefix(prefixAPP) >> }

InitPointee ==
    /\ disk \in PointeeDisks
    /\ environ \in PointeeEnvironments
    /\ Idle
    /\ probe = NoProbe
    /\ derived = NotDerived
    /\ SideIdle

BindPointee ==
    \E r0 \in { ZeroRecord, Linked }, os \in PointeeOptionLists :
        CallOn("Load", "ptrstruct", r0, os)

NextPointee == BindPointee \/ Return

SpecPointee == InitPointee /\ [][NextPointee]_vars

\* ------------------------------------------------------------------------
\* The legacy package (konfig.go): GetConf with the package variable konfigs
\* ------------------------------------------------------------------------
\* os.Getenv: the empty string for a variable that is not set
Getenv(e, key) == IF key \in DOMAIN e THEN e[key] ELSE << >>

\* the kind switch of GetENVConfig: a value that does not parse is dropped,
\* a field of another kind (pointer, struct) is left alone
LegacySet(f, cell, value) ==
    IF f.ptr THEN cell
    ELSE CASE f.kind = "string" -> [cell EXCEPT !.s = value]
           [] f.kind = "bool" ->
                  IF ParseBool(value).ok
                  THEN [cell EXCEPT !.b = ParseBool(value).v] ELSE cell
           [] f.kind = "int" ->
                  IF ParseInt(value, f.bits).ok
                  THEN [cell EXCEPT !.n = ParseInt(value, f.bits).v] ELSE cell
           [] OTHER -> cell

\* GetENVConfig as [status, rec]: the variables carry the field names
GetENVConfig(r, e) ==
    IF Getenv(e, StructTypes["Config"][1].name) = << >>
    THEN [status |-> "no_env", rec |-> r]
    ELSE [status |-> "env",
          rec |-> [p \in DOMAIN r |->
                     IF Len(p) = 1 /\ FieldAt(p).exported
                        /\ Len(Getenv(e, FieldAt(p).name)) > 0
                     THEN LegacySet(FieldAt(p), r[p],
                                    Getenv(e, FieldAt(p).name))
                     ELSE r[p]]]

\* GetJSONConfig, GetTOMLConfig, GetYAMLConfig as [failed, rec]
GetFormatConfig(decoder, filename, r, d) ==
    IF ReadFile(d, filename).err # "" THEN [failed |-> TRUE, rec |-> r]
    ELSE [failed |-> ~Unmarshal(decoder, ReadFile(d, filename).data,
                                "struct", r).ok,
          rec |-> Unmarshal(decoder, ReadFile(d, filename).data,
                            "struct", r).rec]

\* err = GetTOMLConfig(...) and err = GetYAMLConfig(...), each run only if
\* err != nil
LegacyFallback(decoder, filename, before, d) ==
    IF before.failed THEN GetFormatConfig(decoder, filename, before.rec, d)
    ELSE before

\* if status == "no_env" { err = GetJSONConfig(filename+".json", ...) }
LegacyFirst(filename, env, d) ==
    IF env.status = "no_env"
    THEN GetFormatConfig("json", filename \o extJSON, env.rec, d)
    ELSE [failed |-> FALSE, rec |-> env.rec]

\* the record after the environment and the three formats were tried
LegacyPopulate(filename, r, d, e) ==
    LegacyFallback("yaml", filename \o extYAML,
        LegacyFallback("toml", filename \o extTOML,
            LegacyFirst(filename, GetENVConfig(r, e), d), d), d).rec

\* konfigs = configuration: the caller's record, as populated
Remember(r) == [nil |-> FALSE, rec |-> r]

\* the legacy GetConf as [rec, konfigs]; it returns nil in every case
LegacyGetConf(filename, r, k, d, e) ==
    IF ~k.nil THEN [rec |-> r, konfigs |-> k]
    ELSE [rec |-> LegacyPopulate(filename, r, d, e),
          konfigs |-> Remember(LegacyPopulate(filename, r, d, e))]

LegacyEnvironments ==
    { EnvOf(ps) : ps \in SUBSET { << << "S","e","r","v","e","r" >>, vEnv >>,
                                  << << "D","e","b","u","g" >>, vTrue >> } }

InitLegacy ==
    /\ disk \in Disks
    /\ environ \in LegacyEnvironments
    /\ Idle
    /\ probe = NoProbe
    /\ derived = NotDerived
    /\ SideIdle

\* a call of the legacy GetConf on a fresh zero value
GetConfLegacy ==
    /\ pc = "idle"
    /\ \E base \in Bases :
          \E r \in { LegacyGetConf(base, ZeroRecord, konfigs, disk, environ) } :
              /\ cfg' = [ZeroOptions EXCEPT !.base = base]
              /\ rec' = r.rec
              /\ konfigs' = r.konfigs
    /\ pc' = "returned"
    /\ fn' = "GetConfLegacy"
    /\ err' = NoErr
    /\ UNCHANGED << world, keyvars, config, opts, log, allocs, loaded, applied,
                    rec0, calls, stat, translit, morevars >>

NextLegacy == GetConfLegacy \/ GetConf \/ Return

SpecLegacy == InitLegacy /\ [][NextLegacy]_vars

\* ------------------------------------------------------------------------
\* Two calls of Load side by side, each on a record of its own.  A call
\* advances by one file read or decoded at a time and ends with the binder;
\* calls.run[i] is [os, pc, k, st], the options, the stage, the index in
\* the stage and the locals of call i, and calls.recs holds the records.
\* ------------------------------------------------------------------------
\* both calls given the first record
DestShared(i) == 1

\* the record call i was given
Dest(i) == i

\* the stage after the base-name stage
AfterBase(st) == IF Len(st.cfg.files) > 0 THEN "files" ELSE "env"

\* the validation and the option loop of Load
StepStart(c, r) ==
    LET st == LoadStart(r, c.os) IN
    [c EXCEPT !.st = st, !.k = 1,
              !.pc = IF st.cfg.base # << >> THEN "base" ELSE AfterBase(st)]

\* one iteration of the loop of loadFirstAvailable
StepBase(c, r) ==
    LET q == loadFirstAvailable(<< baseFiles(c.st.cfg.base)[c.k] >>, "struct",
                                [c.st EXCEPT !.rec = r], disk)
    IN  [c EXCEPT !.st = q,
                  !.k = IF q.err = NoErr /\ ~q.loaded /\ c.k < 4
                        THEN c.k + 1 ELSE 1,
                  !.pc = IF q.err # NoErr THEN "done"
                         ELSE IF q.loaded \/ c.k = 4 THEN AfterBase(q)
                         ELSE "base"]

\* one iteration of the loop of loadSequential
StepFiles(c, r) ==
    LET q == loadSequential(<< c.st.cfg.files[c.k] >>, "struct",
                            [c.st EXCEPT !.rec = r], disk)
    IN  [c EXCEPT !.st = q,
                  !.k = IF q.err = NoErr /\ c.k < Len(c.st.cfg.files)
                        THEN c.k + 1 ELSE 1,
                  !.pc = IF q.err # NoErr THEN "done"
                         ELSE IF c.k = Len(c.st.cfg.files) THEN "env"
                         ELSE "files"]

\* applyEnvOverrides and the return of Load
StepEnv(c, r) ==
    [c EXCEPT !.st = LoadEnv("struct", [c.st EXCEPT !.rec = r], environ),
              !.pc = "done"]

StepCall(c, r) ==
    CASE c.pc = "start" -> StepStart(c, r)
      [] c.pc = "base"  -> StepBase(c, r)
      [] c.pc = "files" -> StepFiles(c, r)
      [] c.pc = "env"   -> StepEnv(c, r)

ConcDisks == { d \in Disks : d[aYAML] = "missing" /\ d[aYML] = "missing" }

ConcEnvironments == { EnvOf({}), EnvOf({ << kServer, vEnv >> }) }

ConcOptionLists ==
    { << >>, << withBase(baseA) >>, << WithFiles(<< fJSON, gYAML >>) >>,
      << withBase(baseA), WithFiles(<< gYAML >>) >> }

NewCall(os) == [os |-> os, pc |-> "start", k |-> 1, st |-> LoadStart(ZeroRecord, os)]

InitConc ==
    /\ disk \in ConcDisks
    /\ environ \in ConcEnvironments
    /\ Idle
    /\ probe = NoProbe
    /\ derived = NotDerived
    /\ konfigs = NilKonfigs
    /\ stat = NoStat
    /\ translit = NoTranslit
    /\ MoreIdle
    /\ \E a, b \in ConcOptionLists :
          calls = [run |-> << NewCall(a), NewCall(b) >>,
                   recs |-> << ZeroRecord, ZeroRecord >>]

\* one of the calls takes its next step
Step ==
    /\ \E i \in DOMAIN calls.run :
          /\ calls.run[i].pc # "done"
          /\ \E c \in { StepCall(calls.run[i], calls.recs[Dest(i)]) } :
                calls' = [run |-> [calls.run EXCEPT ![i] = c],
                          recs |-> [calls.recs EXCEPT ![Dest(i)] = c.st.rec]]
    /\ UNCHANGED << world, loadvars, keyvars, konfigs, stat, translit,
                    morevars >>

NextConc == Step

SpecConc == InitConc /\ [][NextConc]_vars

\* ------------------------------------------------------------------------
\* One call of Load given up to MaxOpts options, the same kind of option
\* more than once among them.
\* ------------------------------------------------------------------------
MaxOpts == 4

RepeatableOptions ==
    { WithFiles(<< fJSON >>), WithFiles(<< gYAML, fJSON >>),
      WithEnvPrefix(prefixAPP), WithEnvPrefix(prefixLower), withBase(baseA) }

RepeatedOptionLists ==
    UNION { SeqsOfLen(RepeatableOptions, n) : n \in 0..MaxOpts }

OptsDisks ==
    { d \in Disks : d[fJSON] = "ok" /\ d[aJSON] = "missing"
                     /\ d[aTOML] = "missing" /\ d[aYAML] = "missing" }

InitOpts ==
    /\ disk \in OptsDisks
    /\ environ \in { EnvOf({}), EnvOf({ << kAppServer, vEnv >> }) }
    /\ Idle
    /\ probe = NoProbe
    /\ derived = NotDerived
    /\ konfigs = NilKonfigs
    /\ stat = NoStat
    /\ translit = NoTranslit
    /\ MoreIdle
    /\ \E os \in RepeatedOptionLists :
          calls = [run |-> << NewCall(os) >>, recs |-> << ZeroRecord >>]

NextOpts == Step

SpecOpts == InitOpts /\ [][NextOpts]_vars

\* ------------------------------------------------------------------------
\* toEnvKey on names: a name of up to MaxName characters is transliterated
\* and the key it gives is transliterated again.
\* ------------------------------------------------------------------------
MaxName == 3

NameChars == { "a", "B", "2", "_", "-", ".", " ", "ß" }

Names == UNION { SeqsOfLen(NameChars, n) : n \in 0..MaxName }

InitName ==
    /\ disk = [p \in FilePaths |-> "missing"]
    /\ environ = EnvOf({})
    /\ Idle
    /\ probe = NoProbe
    /\ derived = NotDerived
    /\ konfigs = NilKonfigs
    /\ calls = NoCalls
    /\ stat = NoStat
    /\ MoreIdle
    /\ \E n \in Names : translit = [NoTranslit EXCEPT !.name = n]

\* toEnvKey(name), and toEnvKey of what it returned
Transliterate ==
    /\ ~translit.done
    /\ \E k \in { toEnvKey(translit.name) } :
          translit' = [translit EXCEPT !.key = k, !.again = toEnvKey(k),
                                       !.done = TRUE]
    /\ UNCHANGED << world, loadvars, keyvars, konfigs, calls, stat, morevars >>

NextName == Transliterate

SpecName == InitName /\ [][NextName]_vars

\* ------------------------------------------------------------------------
\* unmarshalByExtension on a file name and its bytes: the names differ in
\* the case of the extension, have an extension no decoder is chosen for,
\* none at all, or one in a directory name only.  TOML data with a value of
\* the wrong type is left out: the TOML decoder does not say in what order
\* it writes the fields.
\* ------------------------------------------------------------------------
DecodeNames ==
    { << "c" >> \o extJSON, << "c", ".", "J", "S", "O", "N" >>,
      << "c", ".", "T", "o", "m", "l" >>, << "c" >> \o extYAML,
      << "c", ".", "Y", "M", "L" >>, << "c" >>,
      << "c", ".", "c", "o", "n", "f" >>,
      << "d", ".", "j", "s", "o", "n", "/", "c" >> }

DecodeData ==
    { [syntax |-> x, sets |-> FileData(aJSON).sets, mistyped |-> m] :
        x \in { "json", "toml", "yaml" }, m \in BOOLEAN }
    \cup { [NoData EXCEPT !.syntax = "malformed"] }

InitDecode ==
    /\ disk = [p \in FilePaths |-> "missing"]
    /\ environ = EnvOf({})
    /\ Idle
    /\ probe = NoProbe
    /\ derived = NotDerived
    /\ konfigs = NilKonfigs
    /\ calls = NoCalls
    /\ stat = NoStat
    /\ translit = NoTranslit
    /\ walk = NoWalk
    /\ \E f \in DecodeNames, d \in DecodeData, t \in { "struct", "int" } :
          /\ ~(d.syntax = "toml" /\ d.mistyped)
          /\ dec = [NoDec EXCEPT !.file = f, !.data = d, !.target = t]

\* a call of unmarshalByExtension
Decode ==
    /\ ~dec.done
    /\ \E u \in { unmarshalByExtension(dec.file, dec.data, dec.target,
                                         dec.rec) } :
          dec' = [dec EXCEPT !.rec = u.rec, !.err = u.err, !.ran = u.ran,
                             !.done = TRUE]
    /\ UNCHANGED << world, loadvars, keyvars, konfigs, calls, stat, translit,
                    walk >>

NextDecode == Decode

SpecDecode == InitDecode /\ [][NextDecode]_vars

\* ------------------------------------------------------------------------
\* Load over files of which one, e.json, is an object without members
\* ------------------------------------------------------------------------
EmptyDisks ==
    { [p \in FilePaths \cup { eJSON } |-> IF p \in on THEN "ok" ELSE "missing"] :
        on \in SUBSET { eJSON, fJSON, gYAML } }

EmptyOptionLists ==
    { << >> } \cup
    { << WithFiles(fl) >> :
        fl \in UNION { Perms(T) : T \in SUBSET { eJSON, fJSON, gYAML } }
               \ { << >> } }

InitEmpty ==
    /\ disk \in EmptyDisks
    /\ environ \in { EnvOf({}), EnvOf({ << kServer, vEnv >> }) }
    /\ Idle
    /\ probe = NoProbe
    /\ derived = NotDerived
    /\ SideIdle

LoadPossiblyEmpty ==
    \E os \in EmptyOptionLists : Call("Load", "ptrstruct", os)

NextEmpty == LoadPossiblyEmpty \/ Return

SpecEmpty == InitEmpty /\ [][NextEmpty]_vars

\* ------------------------------------------------------------------------
\* GetConfigFilesWithExt
\* ------------------------------------------------------------------------
\* info.Mode().IsRegular() with a directory passing for a file
IsRegularOrDir(status) == status \in { "ok", "malformed", "mistyped", "dir" }

\* info.Mode().IsRegular()
IsRegular(status) == status \in { "ok", "malformed", "mistyped" }

\* os.Stat as [err, status]: "notexist" for os.ErrNotExist, "other" for any
\* other failure
Stat(d, file) ==
    CASE StatusOf(d, file) = "missing" -> [err |-> "notexist", status |-> ""]
      [] StatusOf(d, file) = "denied"  -> [err |-> "other", status |-> ""]
      [] OTHER -> [err |-> "", status |-> StatusOf(d, file)]

\* the loop of GetConfigFilesWithExt and its return, as [matched, err]; the
\* nil slice is the empty sequence
RECURSIVE GetConfigFilesWithExtFrom(_, _, _)
GetConfigFilesWithExtFrom(files, matched, d) ==
    IF files = << >>
    THEN IF Len(matched) = 0
         THEN [matched |-> << >>, err |-> ErrNoSources]
         ELSE [matched |-> matched, err |-> NoErr]
    ELSE LET file == Head(files)
             info == Stat(d, file)
         IN  IF file = << >>
             THEN GetConfigFilesWithExtFrom(Tail(files), matched, d)
             ELSE IF info.err = "notexist"
             THEN GetConfigFilesWithExtFrom(Tail(files), matched, d)
             ELSE IF info.err # ""
             THEN [matched |-> << >>, err |-> Err("stat", file, "konfig: stat")]
             ELSE IF IsRegular(info.status)
             THEN GetConfigFilesWithExtFrom(Tail(files),
                                            Append(matched, file), d)
             ELSE GetConfigFilesWithExtFrom(Tail(files), matched, d)

GetConfigFilesWithExt(files, d) == GetConfigFilesWithExtFrom(files, << >>, d)

MaxList == 3

StatPaths == { aJSON, fJSON, gYAML }

StatDisks ==
    { d \in [FilePaths -> { "missing", "ok", "dir", "denied" }] :
        \A f \in FilePaths \ StatPaths : d[f] = "missing" }

\* the arguments of a call: paths, empty strings and a blank string
StatLists ==
    UNION { SeqsOfLen(StatPaths \cup { << >>, << " " >> }, n) : n \in 0..MaxList }

InitStat ==
    /\ disk \in StatDisks
    /\ environ = EnvOf({})
    /\ Idle
    /\ probe = NoProbe
    /\ derived = NotDerived
    /\ konfigs = NilKonfigs
    /\ calls = NoCalls
    /\ stat \in { [NoStat EXCEPT !.files = fl] : fl \in StatLists }
    /\ translit = NoTranslit
    /\ MoreIdle

\* a call of GetConfigFilesWithExt
ListFiles ==
    /\ ~stat.done
    /\ \E r \in { GetConfigFilesWithExt(stat.files, disk) } :
          stat' = [files |-> stat.files, matched |-> r.matched,
                   err |-> r.err, done |-> TRUE]
    /\ UNCHANGED << world, loadvars, keyvars, konfigs, calls, translit,
                    morevars >>

NextStat == ListFiles

SpecStat == InitStat /\ [][NextStat]_vars

\* ------------------------------------------------------------------------
\* Files that cannot be read or decoded
\* ------------------------------------------------------------------------
FaultStatuses == { "dir", "malformed", "mistyped" }

\* The TOML decoder assigns the fields in no fixed order and stops at the
\* first mismatch, so a mistyped file is one the JSON or the YAML decoder
\* is given.
FaultDisks ==
    { d \in [FilePaths -> {"missing", "ok"} \cup FaultStatuses] :
        /\ Cardinality({ f \in FilePaths : d[f] # "missing" }) <= MaxFiles
        /\ d[aTOML] # "mistyped" }

FaultEnvironments == { EnvOf({}), EnvOf({ << kServer, vEnv >> }) }

\* file lists with empty and whitespace-only entries
BlankLists ==
    { << << >>, gYAML, fJSON >>, << << " ", "\t" >>, fJSON, << " " >>, gYAML >> }

FaultOptionLists ==
    OptionLists \cup { << WithFiles(fl) >> : fl \in FileLists \cup BlankLists }
                \cup { << withBase(baseA), WithFiles(fl) >> : fl \in BlankLists }

InitFault ==
    /\ disk \in FaultDisks
    /\ environ \in FaultEnvironments
    /\ Idle
    /\ probe = NoProbe
    /\ derived = NotDerived
    /\ SideIdle

LoadFaulty == \E os \in FaultOptionLists : Call("Load", "ptrstruct", os)

NextFault == LoadFaulty \/ Return

SpecFault == InitFault /\ [][NextFault]_vars

\* ------------------------------------------------------------------------
\* Properties
\* ------------------------------------------------------------------------
ScalarPaths ==
    { pServer, pTimeout, pDbPort, pPoolSize, pValue, pUsername, pDebug,
      pLevel, pRetries }

\* the environment key of each scalar field of Config, written out
ExpectedKey(p, prefix) ==
    LET bare == CASE p = pServer   -> kServer
                  [] p = pTimeout  -> kTimeout
                  [] p = pDbPort   -> kDbPort
                  [] p = pValue    -> kNestedValue
                  [] p = pUsername -> kCredsAppUser
                  [] p = pPoolSize -> kPoolSize
                  [] p = pDebug    -> kDebug
                  [] p = pLevel    -> kLevel
                  [] p = pRetries  -> kRetries
    IN  IF prefix = << >> THEN bare ELSE prefix \o << "_" >> \o bare

\* the numbers the numeric environment values denote
NumberOf == (v7777 :> 7777) @@ (v15 :> 15)

\* the field at p holds the environment value v, coerced to its type
HoldsCoerced(r, p, v) ==
    CASE FieldAt(p).kind = "string" -> r[p].s = v
      [] FieldAt(p).kind = "bool" -> v = << "t", "r", "u", "e" >> /\ r[p].b
      [] OTHER -> ~r[p].nil /\ v \in DOMAIN NumberOf /\ r[p].n = NumberOf[v]

Returned == pc = "returned"

Succeeded == Returned /\ config = "ptrstruct" /\ err = NoErr

FileEvents == { i \in 1..Len(log) : log[i].op \in {"read", "decode"} }

LookupEvents == { i \in 1..Len(log) : log[i].op = "lookup" }

Decoded(file) == \E i \in 1..Len(log) : log[i] = Event("decode", file)

\* C1: after a successful Load every scalar field whose environment key is
\* set holds the coerced environment value, whatever the files gave it and
\* in whatever order the options were passed; every environment lookup
\* comes after every file read and decode.
C1_EnvironmentWins ==
    Succeeded =>
        /\ \A p \in ScalarPaths :
              ExpectedKey(p, cfg.envPrefix) \in DOMAIN environ =>
                  HoldsCoerced(rec, p, environ[ExpectedKey(p, cfg.envPrefix)])
        /\ \A i \in FileEvents, j \in LookupEvents : i < j

\* C1 witness: the prefix option was passed before the base option, the
\* base file gave Server a value and APP_SERVER replaced it
C1_Witness ==
    /\ Succeeded
    /\ opts = << WithEnvPrefix(prefixAPP), withBase(baseA) >>
    /\ Decoded(aJSON)
    /\ kAppServer \in DOMAIN environ
    /\ rec[pServer].s = vEnv

\* the files a call was told to look at
BaseCandidates ==
    IF cfg.base = << >> THEN << >>
    ELSE << cfg.base \o extJSON, cfg.base \o extTOML,
            cfg.base \o extYAML, cfg.base \o extYML >>

Exists(file) == file \in DOMAIN disk /\ disk[file] # "missing"

NoFileExists ==
    /\ \A i \in 1..Len(BaseCandidates) : ~Exists(BaseCandidates[i])
    /\ \A i \in 1..Len(cfg.files) : ~Exists(cfg.files[i])

NoKeyPresent ==
    \A p \in ScalarPaths : ExpectedKey(p, cfg.envPrefix) \notin DOMAIN environ

\* C2: a call on a valid destination with no existing base candidate, no
\* existing explicit file and no environment key of the record present
\* returns exactly ErrNoSources.
C2_NoSources ==
    (Returned /\ config = "ptrstruct" /\ NoFileExists /\ NoKeyPresent)
        => err = ErrNoSources

\* C2 witness: GetConf found none of its candidates although another file
\* and an unrelated variable exist
C2_Witness ==
    /\ Returned
    /\ fn = "GetConf"
    /\ config = "ptrstruct"
    /\ cfg.base = << "b" >>
    /\ Exists(aJSON)
    /\ DOMAIN environ # {}
    /\ err = ErrNoSources

\* the first base candidate that exists (0 when none does)
FirstExisting ==
    LET S == { i \in 1..Len(BaseCandidates) : Exists(BaseCandidates[i]) }
    IN  IF S = {} THEN 0 ELSE CHOOSE i \in S : \A j \in S : i <= j

\* the value the base-name stage leaves in the field at p
BaseValue(p) ==
    IF FirstExisting # 0
       /\ p \in DOMAIN FileData(BaseCandidates[FirstExisting]).sets
    THEN FileData(BaseCandidates[FirstExisting]).sets[p]
    ELSE ZeroCell(FieldAt(p).ptr)

\* the value of the last existing file of the list that sets the field at p
RECURSIVE LastSetter(_, _, _)
LastSetter(files, p, cur) ==
    IF files = << >> THEN cur
    ELSE LastSetter(Tail(files), p,
             IF Exists(Head(files)) /\ p \in DOMAIN FileData(Head(files)).sets
             THEN FileData(Head(files)).sets[p]
             ELSE cur)

KeyAbsent(p) == ExpectedKey(p, cfg.envPrefix) \notin DOMAIN environ

\* C3: Load on a zero record with no existing file and no matching variable
\* returns ErrNoSources and leaves every field at its zero value, pointers
\* nil.  (The code allocates the pointer-to-struct field Nested.)
C3_ZeroRecordUntouched ==
    (Returned /\ config = "ptrstruct" /\ NoFileExists /\ NoKeyPresent)
        => (err = ErrNoSources /\ rec = ZeroRecord)

IsBaseEvent(ev) ==
    \E i \in 1..Len(BaseCandidates) : ev.name = BaseCandidates[i]

\* the reads and the decode of a base-name stage that stops at the first
\* candidate that exists
ExpectedBaseLog ==
    LET n == IF FirstExisting = 0 THEN Len(BaseCandidates) ELSE FirstExisting
        reads == [i \in 1..n |-> Event("read", BaseCandidates[i])]
    IN  IF FirstExisting = 0 THEN reads
        ELSE Append(reads, Event("decode", BaseCandidates[FirstExisting]))

\* C4: with a base name the candidates .json, .toml, .yaml, .yml are probed
\* in that order up to the first that exists, only that one is decoded, and
\* with no explicit file and no variable for a field its value is the one
\* that candidate gives it (its zero value if the candidate does not set it).
C4_FirstMatchWins ==
    (Returned /\ config \in {"ptrstruct", "ptrint"} /\ cfg.base # << >>) =>
        /\ SelectSeq(log, IsBaseEvent) = ExpectedBaseLog
        /\ (Succeeded /\ cfg.files = << >>) =>
              \A p \in ScalarPaths : KeyAbsent(p) => rec[p] = BaseValue(p)

\* C4 witness: .toml and .yaml both exist, .json does not; only .toml is
\* decoded
C4_Witness ==
    /\ Succeeded
    /\ cfg.base = baseA
    /\ ~Exists(aJSON) /\ Exists(aTOML) /\ Exists(aYAML)
    /\ Decoded(aTOML) /\ ~Decoded(aYAML)
    /\ rec[pServer].s = sToml

\* C5: after a successful Load with explicit files each field without an
\* environment value holds what the last existing file of the list that
\* sets it gives it, and otherwise the value it had before the list.
C5_LaterFileOverrides ==
    (Succeeded /\ cfg.files # << >>) =>
        \A p \in ScalarPaths :
            KeyAbsent(p) => rec[p] = LastSetter(cfg.files, p, BaseValue(p))

\* C5 witness: f.json and g.yaml both set Server, only f.json sets
\* Database.Port
C5_Witness ==
    /\ Succeeded
    /\ cfg.files = << fJSON, gYAML >>
    /\ Exists(fJSON) /\ Exists(gYAML)
    /\ rec[pServer].s = sSecond
    /\ rec[pDbPort].n = 1000

\* C6: a destination that is nil, not a pointer, a nil pointer or a pointer
\* to a non-struct gets a validation error before any file is read or
\* decoded and before any variable is looked up.  (The code rejects a
\* pointer to a non-struct only after the files.)
C6_ValidationBeforeIO ==
    (Returned /\ config # "ptrstruct") =>
        (err.kind = "validation" /\ log = << >>)

\* C7: the binder allocates the nil pointer-to-struct field Nested at most
\* once, and only when a variable of a descendant is set; otherwise the
\* pointer is nil after Load.  (The code allocates it on every call.)
C7_AllocatedOnlyForValue ==
    (Returned /\ config = "ptrstruct") =>
        /\ allocs[pNested] <= 1
        /\ allocs[pNested] = 1 => ~KeyAbsent(pValue)
        /\ (KeyAbsent(pValue) /\ ~Decoded(gYAML)) => rec[pNested].nil

\* C8: when the variable of Nested.Value is set, after a successful Load
\* the pointer Nested is non-nil and Value holds the variable's value.
C8_PointerStructPopulated ==
    (Succeeded /\ ~KeyAbsent(pValue)) =>
        /\ ~rec[pNested].nil
        /\ rec[pValue].s = environ[ExpectedKey(pValue, cfg.envPrefix)]

\* C8 witness: APP_NESTED_VALUE is set, the binder allocated Nested
C8_Witness ==
    /\ Succeeded
    /\ cfg.envPrefix = prefixAPP
    /\ kAppNestedValue \in DOMAIN environ
    /\ allocs[pNested] = 1
    /\ ~rec[pNested].nil
    /\ rec[pValue].s = vEnv

\* a tag is available when its value before the first comma is neither
\* empty nor the skip-sentinel
Available(tag) == BeforeComma(tag) \notin { << >>, << "-" >> }

SourceOrder == << "env", "konfig", "json", "yaml", "toml" >>

\* the name the precedence order picks for a field
FirstAvailable(field) ==
    LET S == { i \in 1..Len(SourceOrder) :
                   Available(field.tags[SourceOrder[i]]) }
    IN  IF S = {} THEN field.name
        ELSE BeforeComma(field.tags[SourceOrder[
                 CHOOSE i \in S : \A j \in S : i <= j]])

\* the keys of the one-letter names of the probes, written out
KeyOfLetter ==
    (<< "e" >> :> << "E" >>) @@ (<< "k" >> :> << "K" >>)
    @@ (<< "j" >> :> << "J" >>) @@ (<< "y" >> :> << "Y" >>)
    @@ (<< "t" >> :> << "T" >>) @@ (<< "N" >> :> << "N" >>)

\* C9: whenever envKey yields a key, it is built from the first available of
\* the env, konfig, json, yaml and toml tags and the field name, in that
\* order; a lower source is never used when a higher one is available.
C9_KeyPrecedence ==
    (derived.done /\ derived.ok) =>
        derived.key =
            (IF probe.prefix = << >> THEN << >>
             ELSE probe.prefix \o << "_" >>)
            \o KeyOfLetter[FirstAvailable(probe.field)]

\* C9 witness: the env tag has only an option, the konfig tag is the
\* skip-sentinel, and the json tag wins over the yaml tag
C9_Witness ==
    /\ derived.done /\ derived.ok
    /\ probe.prefix = prefixAPP
    /\ probe.field.tags["env"] = << ",", "o" >>
    /\ probe.field.tags["konfig"] = << "-" >>
    /\ probe.field.tags["json"] = << "j", ",", "o" >>
    /\ probe.field.tags["yaml"] = << "y" >>
    /\ derived.key = prefixAPP \o << "_", "J" >>

BinderFinished ==
    Returned /\ config = "ptrstruct" /\ err \in { NoErr, ErrNoSources }

LookedUp(key) == \E i \in 1..Len(log) : log[i] = Event("lookup", key)

\* C10, as claimed: the variable looked up for Credentials.Username, tagged
\* env:"APP_USER", is exactly APP_USER, whatever the prefix, and the field is
\* populated from it.
C10_TagIsExactKey ==
    BinderFinished =>
        /\ LookedUp(kAppUser)
        /\ kAppUser \in DOMAIN environ =>
               rec[pUsername].s = environ[kAppUser]

\* C10, amended: the variable looked up for Credentials.Username is the
\* transliterated tag behind the prefix in effect for its struct (the
\* WithEnvPrefix value, if any, and the segment of the enclosing field):
\* APP_CREDENTIALS_APP_USER or CREDENTIALS_APP_USER, never APP_USER alone;
\* the field takes that variable's value and is left empty without it.
C10_TagBehindPrefix ==
    BinderFinished =>
        /\ LookedUp(ExpectedKey(pUsername, cfg.envPrefix))
        /\ ~LookedUp(kAppUser)
        /\ rec[pUsername].s =
               IF KeyAbsent(pUsername) THEN << >>
               ELSE environ[ExpectedKey(pUsername, cfg.envPrefix)]

\* C10 witness: with prefix APP, APP_CREDENTIALS_APP_USER fills Username
C10_Witness ==
    /\ Succeeded
    /\ cfg.envPrefix = prefixAPP
    /\ kAppCredsAppUser \in DOMAIN environ
    /\ rec[pUsername].s = vSvc

\* the key segment of each bound field of Config, written out
Segment ==
    (pServer :> kServer) @@ (pTimeout :> kTimeout)
    @@ (pDatabase :> << "D","A","T","A","B","A","S","E" >>)
    @@ (pDbPort :> << "P","O","R","T" >>)
    @@ (pPool :> << "P","O","O","L" >>)
    @@ (pPoolSize :> << "S","I","Z","E" >>)
    @@ (pNested :> << "N","E","S","T","E","D" >>)
    @@ (pValue :> << "V","A","L","U","E" >>)
    @@ (pCreds :> << "C","R","E","D","E","N","T","I","A","L","S" >>)
    @@ (pUsername :> kAppUser)
    @@ (pDebug :> kDebug)
    @@ (pLevel :> kLevel) @@ (pRetries :> kRetries) @@ (pTags :> kTags)

\* the prefix and the segments of the fields on the way to p, joined by "_"
RECURSIVE NestedKeyFrom(_, _, _)
NestedKeyFrom(p, i, acc) ==
    IF i > Len(p) THEN acc
    ELSE NestedKeyFrom(p, i + 1,
             IF acc = << >> THEN Segment[SubSeq(p, 1, i)]
             ELSE acc \o << "_" >> \o Segment[SubSeq(p, 1, i)])

NestedKey(p, prefix) == NestedKeyFrom(p, 1, prefix)

\* the bound scalar fields in the order the binder visits them
BoundOrder ==
    << pServer, pTimeout, pDbPort, pPoolSize, pValue, pUsername, pDebug,
       pLevel, pRetries, pTags >>

IsLookup(ev) == ev.op = "lookup"

\* the binder ran: no file stage failed before it
BinderRan ==
    Returned /\ config = "ptrstruct"
             /\ err.kind \in { "nil", "ErrNoSources", "set" }

\* C11: the variables the binder looks up are, in field order, the prefix
\* exactly as the caller gave it (not upper-cased), then the key segment of
\* every struct or pointer-to-struct field on the way, then the segment of
\* the scalar field, joined by "_", with no leading "_" when the prefix is
\* empty; a field whose variable of that name is set takes its value.
C11_NestedPrefix ==
    BinderRan =>
        LET looks == SelectSeq(log, IsLookup) IN
        /\ Len(looks) <= Len(BoundOrder)
        /\ \A i \in 1..Len(looks) :
               looks[i].name = NestedKey(BoundOrder[i], cfg.envPrefix)
        /\ err.kind # "set" => Len(looks) = Len(BoundOrder)
        /\ Succeeded =>
               \A p \in ScalarPaths :
                   NestedKey(p, cfg.envPrefix) \in DOMAIN environ =>
                       HoldsCoerced(rec, p,
                                    environ[NestedKey(p, cfg.envPrefix)])

\* C11 witness: under the prefix "app" the two levels below Database give
\* app_DATABASE_POOL_SIZE, which sets Size, while APP_SERVER is not read
C11_Witness ==
    /\ Succeeded
    /\ cfg.envPrefix = prefixLower
    /\ Under(prefixLower, kPoolSize) \in DOMAIN environ
    /\ Under(prefixAPP, kServer) \in DOMAIN environ
    /\ rec[pPoolSize].n = 15
    /\ rec[pServer].s = << >>
    /\ ~LookedUp(Under(prefixAPP, kServer))

\* the fields tagged env:"-" and what lies below them
SkippedPaths == { pSecret, pInternal, pToken, pShadow, pShadowValue }

\* the keys the other tags and the names of those fields would give
SkippedKeys ==
    { kSecret, kTokenTag, kInternalTok, kShadowValue,
      << "I","N","T","E","R","N","A","L" >>, << "S","H","A","D","O","W" >> }

WithPrefix(prefix, key) == IF prefix = << >> THEN key ELSE Under(prefix, key)

\* C12: the fields tagged env:"-" (Secret, the struct Internal, the pointer
\* Shadow) and their descendants are as the caller passed them after every
\* call, with and without a prefix and whatever variables are set; none of
\* the keys their other tags or names would give is looked up, and the nil
\* pointer Shadow is not allocated.
C12_SkipSentinel ==
    (Returned /\ config = "ptrstruct") =>
        /\ \A p \in SkippedPaths : rec[p] = rec0[p]
        /\ rec[pShadow].nil /\ allocs[pShadow] = 0
        /\ \A k \in SkippedKeys :
               ~LookedUp(WithPrefix(cfg.envPrefix, k)) /\ ~LookedUp(k)

\* C12 witness: under the prefix APP the variables APP_TOKEN (the json tag
\* of Secret) and APP_INTERNAL_TOKEN are set, the binder went through the
\* record and left Secret empty
C12_Witness ==
    /\ Succeeded
    /\ cfg.envPrefix = prefixAPP
    /\ Under(prefixAPP, kTokenTag) \in DOMAIN environ
    /\ Under(prefixAPP, kInternalTok) \in DOMAIN environ
    /\ LookedUp(Under(prefixAPP, kDebug))
    /\ rec[pSecret].s = << >>
    /\ rec[pToken].s = << >>

\* the record as the file stages of the call leave it
AfterFiles ==
    LoadFiles("struct", LoadBase("struct", LoadStart(rec0, opts), disk),
              disk).rec

\* C13: after every call the unexported field hidden holds the value it had
\* when the file stages were through, whatever variables are set (HIDDEN,
\* hidden, APP_HIDDEN included), and no variable is looked up for it.
C13_UnexportedUntouched ==
    (Returned /\ config = "ptrstruct") =>
        /\ rec[pHidden] = AfterFiles[pHidden]
        /\ \A k \in { kHidden, kHiddenName } :
               ~LookedUp(k) /\ ~LookedUp(WithPrefix(cfg.envPrefix, k))

\* C13 witness: the caller passed hidden = "initial", HIDDEN is set, the
\* binder applied SERVER and hidden is still "initial"
C13_Witness ==
    /\ Succeeded
    /\ rec0 = Prepared
    /\ cfg.envPrefix = << >>
    /\ kHidden \in DOMAIN environ
    /\ kServer \in DOMAIN environ
    /\ rec[pServer].s = vEnv
    /\ rec[pHidden].s = vInitial

\* the values of the model each kind of field can be coerced from
Coercible(kind, v) ==
    CASE kind = "string" -> TRUE
      [] kind = "bool" -> v = vTrue
      [] kind = "int" -> v \in { v15, v7777 }
      [] kind = "uint" -> v \in { v15, v7777 }
      [] kind = "slice" -> FALSE

\* the variable of the field at p is set to a value its type cannot take
Uncoercible(p) ==
    /\ NestedKey(p, cfg.envPrefix) \in DOMAIN environ
    /\ ~Coercible(FieldAt(p).kind, environ[NestedKey(p, cfg.envPrefix)])

\* C14: when the file stages succeeded and the variable of a bound field is
\* set to a value its type cannot take, Load returns an error that is not
\* nil and not ErrNoSources and that names the full key (prefix and
\* segments of the enclosing fields) of the first such field.
C14_CoercionErrorNamesKey ==
    (Returned /\ config = "ptrstruct" /\ err.kind \notin { "read", "decode" }
       /\ \E p \in ScalarPaths : Uncoercible(p)) =>
        /\ err # NoErr /\ err # ErrNoSources
        /\ err.kind = "set"
        /\ \E i \in 1..Len(BoundOrder) :
               /\ Uncoercible(BoundOrder[i])
               /\ \A j \in 1..(i - 1) : ~Uncoercible(BoundOrder[j])
               /\ err.name = NestedKey(BoundOrder[i], cfg.envPrefix)

\* C14 witness: a.json was decoded, APP_DATABASE_PORT is "nope" and Load
\* returned the error naming APP_DATABASE_PORT
C14_Witness ==
    /\ Returned
    /\ cfg.envPrefix = prefixAPP
    /\ Decoded(aJSON)
    /\ Under(prefixAPP, kDbPort) \in DOMAIN environ
    /\ environ[Under(prefixAPP, kDbPort)] = vNope
    /\ err.kind = "set"
    /\ err.name = kAppDbPort

Status(file) == StatusOf(disk, file)

CannotLoad(file) == Status(file) \in FaultStatuses \cup { "denied" }

\* the first entry of the explicit list that is there but cannot be read or
\* decoded (0 when there is none)
FirstFault ==
    LET S == { i \in 1..Len(cfg.files) : CannotLoad(TrimSpace(cfg.files[i])) }
    IN  IF S = {} THEN 0 ELSE CHOOSE i \in S : \A j \in S : i <= j

FaultFile == TrimSpace(cfg.files[FirstFault])

\* the entries of the explicit list before the fault
BeforeFault == SubSeq(cfg.files, 1, FirstFault - 1)

\* the base-name stage met a candidate it could not read or decode
BaseFailed ==
    FirstExisting # 0 /\ Status(BaseCandidates[FirstExisting]) # "ok"

ReadOf(file) == \E i \in 1..Len(log) : log[i] = Event("read", file)

\* the error Load returns for a file that cannot be read or decoded
FaultError(file) ==
    IF Status(file) \in { "dir", "denied" }
    THEN Err("read", file, "konfig: read")
    ELSE DecodeErr(file)

\* the call got to its explicit list
ReachedFiles ==
    Returned /\ config = "ptrstruct" /\ cfg.files # << >> /\ ~BaseFailed

\* the call stopped at the faulty entry: its error, nothing read after it,
\* no variable looked up
AbortedAtFault ==
    /\ err = FaultError(FaultFile)
    /\ \A j \in (FirstFault + 1)..Len(cfg.files) :
           ~ReadOf(TrimSpace(cfg.files[j]))
    /\ LookupEvents = {}

SetBeforeFault(p) ==
    \E i \in 1..Len(BeforeFault) :
        Exists(BeforeFault[i]) /\ p \in DOMAIN FileData(BeforeFault[i]).sets

\* C15, as claimed: with explicit files, missing and blank entries give no
\* error; the first entry that cannot be read or decoded makes Load return
\* that error, read no later entry and look up no variable, and every
\* field the earlier files set still holds the value they gave it.
C15_EarlierValuesKept ==
    ReachedFiles =>
        IF FirstFault = 0 THEN err.kind \notin { "read", "decode" }
        ELSE /\ AbortedAtFault
             /\ \A p \in ScalarPaths :
                    SetBeforeFault(p) =>
                        rec[p] = LastSetter(BeforeFault, p, BaseValue(p))

\* C15, amended: as above, but the faulty file itself may have written: a
\* file with a value of the wrong type leaves the other fields it names at
\* its own values; every field it does not name, and every field when the
\* file cannot be read or parsed at all, holds what the base stage and the
\* earlier entries gave it.
C15_FaultAbortsFileList ==
    ReachedFiles =>
        IF FirstFault = 0 THEN err.kind \notin { "read", "decode" }
        ELSE /\ AbortedAtFault
             /\ \A p \in ScalarPaths :
                    rec[p] =
                        IF Status(FaultFile) = "mistyped"
                           /\ p \in DOMAIN FileData(FaultFile).sets
                        THEN FileData(FaultFile).sets[p]
                        ELSE LastSetter(BeforeFault, p, BaseValue(p))

\* C15 witness: f.json was decoded, g.yaml has a value of the wrong type;
\* Load returned the decode error of g.yaml with Database.Port as f.json
\* set it and Server as g.yaml set it, and SERVER was not looked up
C15_Witness ==
    /\ Returned
    /\ cfg.files = << fJSON, gYAML >>
    /\ Status(fJSON) = "ok" /\ Status(gYAML) = "mistyped"
    /\ kServer \in DOMAIN environ
    /\ err = DecodeErr(gYAML)
    /\ rec[pDbPort].n = 1000
    /\ rec[pServer].s = sSecond
    /\ ~LookedUp(kServer)

\* the reads of the base-name stage up to the first candidate that is
\* there, and the decode of it unless it could not be read
BaseLogToFault ==
    LET n == FirstExisting
        reads == [i \in 1..n |-> Event("read", BaseCandidates[i])]
    IN  IF Status(BaseCandidates[n]) \in { "dir", "denied" } THEN reads
        ELSE Append(reads, Event("decode", BaseCandidates[n]))

\* C16: with a base name, missing candidates are passed over without error;
\* when the first candidate that is there is a directory or cannot be
\* decoded, Load returns the read or decode error of that candidate and
\* does nothing after it: no later candidate, no explicit file and no
\* variable is looked at, and with no candidate at all the base stage gives
\* no error.
C16_BaseFaultIsFatal ==
    (Returned /\ config = "ptrstruct" /\ cfg.base # << >>) =>
        /\ BaseFailed =>
              /\ err = FaultError(BaseCandidates[FirstExisting])
              /\ log = BaseLogToFault
        /\ FirstExisting = 0 =>
              /\ SelectSeq(log, IsBaseEvent) =
                     [i \in 1..Len(BaseCandidates) |->
                         Event("read", BaseCandidates[i])]
              /\ ~(err.kind \in { "read", "decode" } /\ IsBaseEvent(err))

\* C16 witness: a.json is malformed and a.toml is a valid file; Load
\* returned the decode error of a.json and never read a.toml
C16_Witness ==
    /\ Returned
    /\ cfg.base = baseA
    /\ Status(aJSON) = "malformed" /\ Status(aTOML) = "ok"
    /\ err = DecodeErr(aJSON)
    /\ ~ReadOf(aTOML)
    /\ rec[pServer].s = << >>

\* a path of the argument list that is a regular file
IsListed(file) == file # << >> /\ Status(file) = "ok"

\* the first path of the argument list that cannot be examined (0 if none)
FirstDenied ==
    LET S == { i \in 1..Len(stat.files) : Status(stat.files[i]) = "denied" }
    IN  IF S = {} THEN 0 ELSE CHOOSE i \in S : \A j \in S : i <= j

\* C17: GetConfigFilesWithExt returns, in the order given, exactly the
\* arguments that are non-empty and are regular files (missing paths, empty
\* strings and directories left out), ErrNoSources and no list when there
\* is none, and the stat error naming the path, with no list, when a path
\* cannot be examined for a reason other than "not found".
C17_ExistingFilesInOrder ==
    stat.done =>
        IF FirstDenied # 0
        THEN /\ stat.err = Err("stat", stat.files[FirstDenied], "konfig: stat")
             /\ stat.matched = << >>
        ELSE IF SelectSeq(stat.files, IsListed) = << >>
        THEN stat.err = ErrNoSources /\ stat.matched = << >>
        ELSE stat.err = NoErr
             /\ stat.matched = SelectSeq(stat.files, IsListed)

\* C17 witness: of a directory, an empty string and the file g.yaml only
\* g.yaml is returned
C17_Witness ==
    /\ stat.done
    /\ stat.files = << aJSON, << >>, gYAML >>
    /\ Status(aJSON) = "dir" /\ Status(gYAML) = "ok"
    /\ stat.err = NoErr
    /\ stat.matched = << gYAML >>

\* C18, as claimed: what a call returns and leaves in a fresh record is
\* what the same call gives when it is the first of the program, whatever
\* was called before.  (The legacy GetConf returns at once, leaving the
\* record empty, when an earlier call has set konfigs.)
C18_CallsIndependent ==
    Returned =>
        IF fn = "GetConfLegacy"
        THEN rec = LegacyGetConf(cfg.base, rec0, NilKonfigs, disk, environ).rec
        ELSE /\ rec = Load(config, rec0, opts, disk, environ).rec
             /\ err = Load(config, rec0, opts, disk, environ).err

\* what call i gives when it runs alone
Alone(i) == Load("ptrstruct", ZeroRecord, calls.run[i].os, disk, environ)

Done(i) == calls # NoCalls /\ calls.run[i].pc = "done"

\* C19: of two Load calls on records of their own, stepping in any order
\* over the same files and environment, each returns the error and leaves
\* the record it returns and leaves when it runs alone.
C19_ConcurrentCallsIsolated ==
    \A i \in 1..2 :
        Done(i) =>
            /\ calls.run[i].st.err = Alone(i).err
            /\ calls.recs[Dest(i)] = Alone(i).rec

\* C19 witness: the first call has decoded a.json and is not through, the
\* second, with other options, has finished with the values of a.json and
\* g.yaml
C19_Witness ==
    /\ Done(2)
    /\ calls.run[1].pc = "env"
    /\ calls.run[1].os # calls.run[2].os
    /\ calls.recs[1][pServer].s = sJson
    /\ calls.recs[1][pValue].s = << >>
    /\ calls.recs[2][pServer].s = sSecond
    /\ calls.recs[2][pValue].s = sG
    /\ calls.recs[2][pDbPort].n = 80
    /\ calls.run[2].st.err = NoErr

IsDashDotSpace(c) == c \in { "-", "." } \/ IsSpace(c)

\* no underscore at either end and no two in a row
UnderscoresSingle(k) ==
    /\ k # << >> => k[1] # "_" /\ k[Len(k)] # "_"
    /\ \A i \in 1..(Len(k) - 1) : ~(k[i] = "_" /\ k[i + 1] = "_")

WellFormed(k) ==
    /\ \A i \in 1..Len(k) : ~IsLower(k[i]) /\ ~IsDashDotSpace(k[i])
    /\ UnderscoresSingle(k)

\* C20: toEnvKey of a key toEnvKey returned is that key, and the key has
\* no lower-case letter, no '-', '.' or whitespace, and no underscore at
\* an end or next to another.
C20_ToEnvKeyIdempotentWellFormed ==
    translit.done =>
        /\ translit.again = translit.key
        /\ WellFormed(translit.key)

\* the decoder an extension selects, "" when it selects none
DecoderOf(ext) ==
    CASE ext = extJSON -> "json"
      [] ext = extTOML -> "toml"
      [] ext \in { extYAML, extYML } -> "yaml"
      [] OTHER -> ""

FallbackOrder == << "toml", "json", "yaml" >>

\* decoder d returns nil on the bytes of the call
Succeeds(d) == Unmarshal(d, dec.data, dec.target, ZeroRecord).ok

\* C21: the decoder is chosen by the extension whatever its case; with any
\* other extension or none TOML, JSON and YAML are tried in this order up
\* to the first that succeeds, and the decode error, which names the path,
\* is returned only when every decoder that was chosen failed.
C21_FormatDispatch ==
    dec.done =>
        LET chosen == DecoderOf(StrToLower(Ext(dec.file))) IN
        /\ chosen # "" => dec.ran = << chosen >>
        /\ chosen = "" =>
              /\ dec.ran = SubSeq(FallbackOrder, 1, Len(dec.ran))
              /\ dec.ran # << >>
              /\ \A i \in 1..(Len(dec.ran) - 1) : ~Succeeds(dec.ran[i])
              /\ Len(dec.ran) < 3 => Succeeds(dec.ran[Len(dec.ran)])
        /\ dec.err = NoErr <=> Succeeds(dec.ran[Len(dec.ran)])
        /\ dec.err # NoErr => dec.err = DecodeErr(dec.file)

\* C21 witness: JSON bytes under a name without extension are taken by the
\* JSON decoder after TOML refused them, and YAML is not tried
C21_Witness ==
    /\ dec.done
    /\ dec.file = << "c" >>
    /\ dec.data.syntax = "json"
    /\ dec.ran = << "toml", "json" >>
    /\ dec.err = NoErr
    /\ dec.rec[pServer].s = sJson

\* the paths of the WithFiles options of os, in the order given
RECURSIVE FilesGiven(_)
FilesGiven(os) ==
    IF os = << >> THEN << >>
    ELSE IF Head(os).op = "WithFiles"
         THEN Head(os).files \o FilesGiven(Tail(os))
         ELSE FilesGiven(Tail(os))

\* the string of the last option of kind op in os, empty when there is none
RECURSIVE LastGiven(_, _)
LastGiven(op, os) ==
    IF os = << >> THEN << >>
    ELSE IF os[Len(os)].op = op THEN os[Len(os)].str
         ELSE LastGiven(op, SubSeq(os, 1, Len(os) - 1))

\* C22: from the first step of a call to its last the settings are the
\* paths of all WithFiles options in call order, the prefix of the last
\* WithEnvPrefix and the base of the last withBase, each empty when no
\* such option was given.
C22_OptionsAccumulate ==
    calls # NoCalls =>
        \A j \in DOMAIN calls.run :
            LET c == calls.run[j] IN
            /\ c.st.cfg.files = FilesGiven(c.os)
            /\ c.st.cfg.envPrefix = LastGiven("WithEnvPrefix", c.os)
            /\ c.st.cfg.base = LastGiven("withBase", c.os)

\* C22 witness: a finished call given two WithFiles and two WithEnvPrefix
\* options read f.json, g.yaml and f.json again and bound APP_SERVER
C22_Witness ==
    /\ calls # NoCalls
    /\ Len(calls.run) = 1
    /\ calls.run[1].pc = "done"
    /\ calls.run[1].os = << WithEnvPrefix(prefixLower), WithFiles(<< fJSON >>),
                            WithEnvPrefix(prefixAPP),
                            WithFiles(<< gYAML, fJSON >>) >>
    /\ calls.run[1].st.cfg.files = << fJSON, gYAML, fJSON >>
    /\ calls.run[1].st.cfg.envPrefix = prefixAPP
    /\ calls.recs[1][pServer].s = vEnv
    /\ calls.recs[1][pValue].s = sG

\* a file that was decoded gave a field of the record a value
SetByFile ==
    \E i \in DOMAIN log :
        /\ log[i].op = "decode"
        /\ DOMAIN Content(StatusOf(disk, log[i].name), log[i].name).sets # {}

\* the binder assigned a field from the environment
SetByEnv == applied > 0

\* C23: Load returns nil only when a file or the environment set a field
\* of the record; a file that decodes and sets nothing is not enough.
C23_NilOnlyIfPopulated ==
    pc = "returned" /\ err = NoErr => SetByFile \/ SetByEnv

\* the places in BoundOrder of the fields whose variable is set to a value
\* the field cannot take
Faults == { i \in 1..Len(BoundOrder) : Uncoercible(BoundOrder[i]) }

FirstOf(S) == CHOOSE i \in S : \A j \in S : i <= j

KeyAt(i) == NestedKey(BoundOrder[i], cfg.envPrefix)

\* C24: when the variables of several fields hold values the fields cannot
\* take, the error names the key of the first of them in declaration
\* order, depth-first; every field before it whose variable is set holds
\* the value of the variable, and every field after it is as the files
\* left it.
C24_FirstFaultStops ==
    (Returned /\ config = "ptrstruct" /\ err.kind \notin { "read", "decode" }
       /\ Faults # {}) =>
        /\ err.kind = "set"
        /\ err.name = KeyAt(FirstOf(Faults))
        /\ \A j \in 1..(FirstOf(Faults) - 1) :
               KeyAt(j) \in DOMAIN environ =>
                   HoldsCoerced(rec, BoundOrder[j], environ[KeyAt(j)])
        /\ \A j \in (FirstOf(Faults) + 1)..Len(BoundOrder) :
               rec[BoundOrder[j]] = AfterFiles[BoundOrder[j]]

\* C24 witness: SERVER, TIMEOUT, DATABASE_POOL_SIZE, DEBUG and TAGS are
\* set; the error names TIMEOUT, Server has its value and Debug is unset
C24_Witness ==
    /\ Returned
    /\ DOMAIN environ = { kServer, kTimeout, kPoolSize, kDebug, kTags }
    /\ err.kind = "set"
    /\ err.name = kTimeout
    /\ rec[pServer].s = vEnv
    /\ ~rec[pDebug].b

\* the places in BoundOrder of the scalar fields the binder got through
Passed ==
    { i \in 1..Len(BoundOrder) :
        /\ BoundOrder[i] \in ScalarPaths
        /\ Faults = {} \/ i < FirstOf(Faults) }

Present(i) == KeyAt(i) \in DOMAIN environ

\* C25: a scalar field the binder got through holds the value of its
\* variable when the variable is set, be it to the empty string, and is as
\* the files left it (a nil pointer still nil) when it is not; every set
\* variable counts as applied, so that an empty string for a string field
\* keeps Load from ErrNoSources, and an empty string for a numeric or
\* boolean field is a fault.
C25_AssignedIffPresent ==
    (Returned /\ config = "ptrstruct" /\ err.kind \notin { "read", "decode" }) =>
        /\ \A i \in Passed :
               IF Present(i)
               THEN HoldsCoerced(rec, BoundOrder[i], environ[KeyAt(i)])
               ELSE rec[BoundOrder[i]] = AfterFiles[BoundOrder[i]]
        /\ Faults = {} =>
               /\ applied = Cardinality({ i \in Passed : Present(i) })
               /\ applied > 0 => err = NoErr
        /\ \A i \in 1..Len(BoundOrder) :
               (/\ Present(i)
                /\ environ[KeyAt(i)] = vEmpty
                /\ FieldAt(BoundOrder[i]).kind \in { "int", "uint", "bool" })
               => err.kind = "set"

\* C25 witness: no file, SERVER set to the empty string and nothing else:
\* Load returns nil with one variable applied, Server empty, Timeout nil
C25_Witness ==
    /\ Succeeded
    /\ ~loaded
    /\ DOMAIN environ = { kServer }
    /\ environ[kServer] = vEmpty
    /\ applied = 1
    /\ rec[pServer].s = << >>
    /\ rec[pTimeout].nil

TagsKey == NestedKey(pTags, cfg.envPrefix)

\* C26: the slice field Tags makes Load fail, with the "unsupported kind"
\* error naming its key, exactly when the variable of that key is set;
\* when it is not set Tags keeps what the files gave it and Load returns
\* nil as soon as a file was decoded or a variable applied.
C26_UnsupportedOnlyIfPresent ==
    (Returned /\ config = "ptrstruct" /\ err.kind \notin { "read", "decode" }
       /\ \A i \in Faults : BoundOrder[i] = pTags) =>
        /\ rec[pTags] = AfterFiles[pTags]
        /\ TagsKey \in DOMAIN environ =>
               err = Err("set", TagsKey, "unsupported kind")
        /\ TagsKey \notin DOMAIN environ =>
               /\ err \in { NoErr, ErrNoSources }
               /\ err = NoErr <=> loaded \/ applied > 0

\* C26 witness: h.json gave Tags an element, APP_TAGS is set but no prefix
\* was given, and Load returned nil with Tags as the file left it
C26_Witness ==
    /\ Succeeded
    /\ cfg.envPrefix = << >>
    /\ Decoded(hJSON)
    /\ DOMAIN environ = { Under(prefixAPP, kTags) }
    /\ rec[pTags].s = << "x" >>

\* the integer each numeral of WidthValues denotes, written out
Denoted ==
    (<< "0" >> :> 0) @@ (<< "5" >> :> 5) @@ (<< "+", "5" >> :> 5)
    @@ (<< "-", "5" >> :> 0 - 5) @@ (<< "-", "1" >> :> 0 - 1)
    @@ (<< "1", "2", "7" >> :> 127) @@ (<< "1", "2", "8" >> :> 128)
    @@ (<< "-", "1", "2", "8" >> :> 0 - 128)
    @@ (<< "-", "1", "2", "9" >> :> 0 - 129)
    @@ (<< "2", "5", "5" >> :> 255) @@ (<< "2", "5", "6" >> :> 256)

\* the value v is a numeral the field at p can hold: within the two's
\* complement range of its width when signed, unsigned within [0, 2^w - 1]
\* and written without a sign
Fits(p, v) ==
    LET w == FieldAt(p).bits IN
    /\ v \in DOMAIN Denoted
    /\ IF FieldAt(p).kind = "int"
       THEN 0 - 2^(w - 1) <= Denoted[v] /\ Denoted[v] <= 2^(w - 1) - 1
       ELSE /\ Head(v) \notin { "+", "-" }
            /\ 0 <= Denoted[v] /\ Denoted[v] <= 2^w - 1

WidthPaths == << pLevel, pRetries >>

WidthKey(i) == NestedKey(WidthPaths[i], cfg.envPrefix)

\* the binder came to field i of WidthPaths: no field before it failed
CameTo(i) ==
    \A j \in 1..(i - 1) :
        WidthKey(j) \in DOMAIN environ =>
            Fits(WidthPaths[j], environ[WidthKey(j)])

\* C27: an integer field whose variable is set holds the number the
\* variable denotes when that number is within the range of the field's
\* width (for an unsigned field: not negative); otherwise Load returns the
\* error naming the key and the field holds what it held before the call,
\* never the low bits of the number.
C27_IntegerRangeChecked ==
    (Returned /\ config = "ptrstruct") =>
        \A i \in 1..Len(WidthPaths) :
            (CameTo(i) /\ WidthKey(i) \in DOMAIN environ) =>
                IF Fits(WidthPaths[i], environ[WidthKey(i)])
                THEN /\ rec[WidthPaths[i]].n = Denoted[environ[WidthKey(i)]]
                     /\ err.name # WidthKey(i)
                ELSE /\ err.kind = "set"
                     /\ err.name = WidthKey(i)
                     /\ rec[WidthPaths[i]] = rec0[WidthPaths[i]]

\* C27 witness: LEVEL is 128 and RETRIES 255 on a record with Level 7:
\* the error names LEVEL, Level is still 7 and Retries was not reached
C27_Witness ==
    /\ Returned
    /\ rec0 = Tuned
    /\ kLevel \in DOMAIN environ /\ environ[kLevel] = << "1", "2", "8" >>
    /\ kRetries \in DOMAIN environ /\ environ[kRetries] = << "2", "5", "5" >>
    /\ err.kind = "set"
    /\ err.name = kLevel
    /\ rec[pLevel].n = 7
    /\ rec[pRetries].n = 9

\* the keys the json tag and the name of Blank would give, and no key
BlankKeys == { kEmpty, kBlank, << >> }

LevelKey == NestedKey(pLevel, cfg.envPrefix)

\* C28: the field Blank, whose env tag transliterates to the empty key, has
\* no key with or without a prefix; after every call it is as the caller
\* passed it, no variable named after its json tag, its name or the bare
\* prefix was looked up, and Level, declared after it, was bound.
C28_EmptyKeySkipped ==
    (Returned /\ config = "ptrstruct") =>
        /\ envKey(FieldAt(pBlank), cfg.envPrefix) = [key |-> << >>, ok |-> FALSE]
        /\ rec[pBlank] = rec0[pBlank]
        /\ \A k \in BlankKeys :
               ~LookedUp(k) /\ ~LookedUp(Under(cfg.envPrefix, k))
        /\ LookedUp(LevelKey)
        /\ LevelKey \in DOMAIN environ => rec[pLevel].n = 5

\* C28 witness: under the prefix APP with APP_EMPTY, APP_BLANK, APP_ and
\* APP_LEVEL set, Blank is still "initial" and Level is 5
C28_Witness ==
    /\ Succeeded
    /\ cfg.envPrefix = prefixAPP
    /\ rec0 = BlankFilled
    /\ { Under(prefixAPP, kEmpty), Under(prefixAPP, kBlank),
         Under(prefixAPP, << >>), Under(prefixAPP, kLevel) } \subseteq DOMAIN environ
    /\ rec[pBlank].s = vInitial
    /\ rec[pLevel].n = 5

\* C29: a pass of the binder never needs more frames than the stack holds,
\* whatever the struct type of the record, a type with a pointer to itself
\* included: the pass returns.
C29_BinderTerminates == walk.pc # "overflow"

ValueKey == NestedKey(pValue, cfg.envPrefix)

\* C30: when the pointer Nested is not nil once the files are through, the
\* binder allocates nothing for it and it stays non-nil; Value, behind it,
\* is as the files left it unless its variable is set, and then holds the
\* variable's value.
C30_PointeeKept ==
    (Returned /\ config = "ptrstruct" /\ err \in { NoErr, ErrNoSources }
       /\ ~AfterFiles[pNested].nil) =>
        /\ allocs[pNested] = 0
        /\ ~rec[pNested].nil
        /\ rec[pValue] = IF ValueKey \in DOMAIN environ
                         THEN [AfterFiles[pValue] EXCEPT !.s = environ[ValueKey]]
                         ELSE AfterFiles[pValue]

\* C30 witness: g.yaml set Nested.Value to "g", SERVER is set and
\* NESTED_VALUE is not: Load returned nil, Value is "g", no allocation
C30_Witness ==
    /\ Succeeded
    /\ Decoded(gYAML)
    /\ kServer \in DOMAIN environ
    /\ ValueKey \notin DOMAIN environ
    /\ rec[pServer].s = vEnv
    /\ rec[pValue].s = sG
    /\ allocs[pNested] = 0

====
